---- MODULE Spec2Model ----
(***************************************************************************)
(* Model of the CashCode bill acceptor driver (src/src/cashcode.rs) and of *)
(* the driver thread that runs it (init_cashcode in src/src/main.rs).      *)
(*                                                                         *)
(* Bytes are naturals 0..255, frames are sequences of bytes.  The serial   *)
(* port is a record: the log of the I/O done on it (wire), the bytes that  *)
(* wait in its input buffer (rx), and a fuse that makes the fuse-th I/O    *)
(* call fail (0: none fails); panic marks a port whose caller has          *)
(* panicked.  The database connection is a record of the rows of           *)
(* accepted_bills and a fuse of the same kind.                             *)
(*                                                                         *)
(* The driver thread takes one step from each point where it sleeps or     *)
(* waits for a lock to the next; cur holds the call it is in the middle    *)
(* of, and inbuf the answers of the device that no read has taken yet.     *)
(***************************************************************************)
EXTENDS Naturals, Sequences, FiniteSets

VARIABLES
    pc,               \* position of the driver thread in init_cashcode
    stacker_removed,  \* CashCode.stacker_removed
    db,               \* rows of accepted_bills: nominal -> quantity
    wire,             \* I/O done on the port by the call in progress, or by the
                      \* latest call of the driver thread
    last,             \* outcome of the latest new, reset, enable, disable or poll
                      \* of the driver thread (of the latest ledger call in
                      \* SpecLedger and SpecCounts)
    cmd_q,            \* commands in flight on the command channel (cmd_tx -> cmd_rx)
    event_q,          \* events in flight on the event channel (tx -> event_rx)
    received,         \* events the consumer has taken from event_rx
    rx_alive,         \* the consumer still holds event_rx
    ui_enable_taken,  \* an Enable command has been taken from cmd_rx
    n_sent,           \* number of commands the producers have enqueued
    produced,         \* events returned by the main-loop polls so far, in order
    mutex,            \* holder of the lock of CashCode.db: "free", "driver"
                      \* (the thread that owns the CashCode) or "peer"
    ret,              \* value returned by the latest ledger read; in the driver
                      \* thread, the total the loop has read and logged last
                      \* (at most one)
    cur,              \* the call the driver thread is in the middle of
    inbuf,            \* answers of the device waiting in the input buffer of
                      \* the port, oldest first
    peer              \* the ledger method a second holder of the Arc of
                      \* CashCode.db is in ("idle": none)

vars == <<pc, stacker_removed, db, wire, last, cmd_q, event_q, received,
          rx_alive, ui_enable_taken, n_sent, produced, mutex, ret, cur, inbuf,
          peer>>

(* ---------------------------------------------------------------- bounds *)
\* commands the producers enqueue in one run
MaxCmds == 1
\* events the driver hands to the event channel in one run
MaxEvents == 2
\* bills of one denomination the device stacks in one run
MaxCount == 1
\* commands already in the command channel when the loop starts a cycle
MaxPending == 2
\* answers of the device left in the input buffer by reads that failed
MaxStale == 1
\* successful calls of record_bill for one denomination, call by call
MaxRecorded == 2

(* ---------------------------------------------------- protocol constants *)
COMMAND_POLL == <<2, 3, 6, 51, 218, 129>>
COMMAND_RESET == <<2, 3, 6, 48, 65, 179>>
COMMAND_ENABLE == <<2, 3, 12, 52, 255, 255, 255, 0, 0, 0, 181, 193>>
COMMAND_DISABLE == <<2, 3, 12, 52, 0, 0, 0, 0, 0, 0, 181, 193>>
ACK == <<2, 3, 6, 0, 194, 130>>

STATUS_INITIALIZING == 19
STATUS_DISABLED == 25
STATUS_IDLING == 20
STATUS_ACCEPTING == 21
STATUS_STACKING == 23
STATUS_STACKER_FULL == 65
STATUS_STACKER_REMOVED == 66
STATUS_JAM_IN_ACCEPTOR == 67
STATUS_JAM_IN_STACKER == 68
STATUS_FAILURE == 71
STATUS_REJECTED == 28
STATUS_BILL_STACKED == 129

NOMINAL_1000 == 0
NOMINAL_5000 == 1
NOMINAL_10000 == 2
NOMINAL_2000 == 12
NOMINAL_20000 == 3

REJECT_INSERTION == 96
REJECT_CONVEYING == 100
REJECT_IDENTIFICATION == 101
REJECT_VERIFICATION == 102
REJECT_INHIBITED == 104
REJECT_CAPACITY == 105
REJECT_OPERATION == 106

FAILURE_55 == 85

(* ------------------------------------------------------------ BillNominal *)
Dram1000 == 1000
Dram2000 == 2000
Dram5000 == 5000
Dram10000 == 10000
Dram20000 == 20000

\* the variants of enum BillNominal, by value
BillNominal == {Dram1000, Dram2000, Dram5000, Dram10000, Dram20000}

\* Option::None of from_code
NoNominal == 0

\* from_code as it would be with a default arm `_ => Some(Dram1000)`
from_code_Default(code) ==
    CASE code = NOMINAL_1000 -> Dram1000
      [] code = NOMINAL_2000 -> Dram2000
      [] code = NOMINAL_5000 -> Dram5000
      [] code = NOMINAL_10000 -> Dram10000
      [] code = NOMINAL_20000 -> Dram20000
      [] OTHER -> Dram1000

\* from_code as it would be with the arms of NOMINAL_2000 and NOMINAL_20000
\* exchanged
from_code_Swapped(code) ==
    CASE code = NOMINAL_1000 -> Dram1000
      [] code = NOMINAL_2000 -> Dram20000
      [] code = NOMINAL_5000 -> Dram5000
      [] code = NOMINAL_10000 -> Dram10000
      [] code = NOMINAL_20000 -> Dram2000
      [] OTHER -> NoNominal

\* BillNominal::from_code
from_code(code) ==
    CASE code = NOMINAL_1000 -> Dram1000
      [] code = NOMINAL_2000 -> Dram2000
      [] code = NOMINAL_5000 -> Dram5000
      [] code = NOMINAL_10000 -> Dram10000
      [] code = NOMINAL_20000 -> Dram20000
      [] OTHER -> NoNominal

(* -------------------------------------------------------------- BillEvent *)
Ev(type, nominal, msg) == [type |-> type, nominal |-> nominal, msg |-> msg]

\* Option::None of poll's result
None == Ev("None", NoNominal, "")
Accepted(nominal) == Ev("Accepted", nominal, "")
Rejected(reason) == Ev("Rejected", NoNominal, reason)
StackerRemoved == Ev("StackerRemoved", NoNominal, "")
StackerReplaced == Ev("StackerReplaced", NoNominal, "")
Jam(msg) == Ev("Jam", NoNominal, msg)
Error(msg) == Ev("Error", NoNominal, msg)

\* format!("{:02X}", b)
Hex02(b) ==
    LET HexDigits == <<"0", "1", "2", "3", "4", "5", "6", "7",
                       "8", "9", "A", "B", "C", "D", "E", "F">>
    IN  HexDigits[(b \div 16) + 1] \o HexDigits[(b % 16) + 1]

(* -------------------------------------------------------------- transport *)
Write(bytes) == [io |-> "write", data |-> bytes]
Read(bytes) == [io |-> "read", data |-> bytes]
Drain == [io |-> "drain", data |-> <<>>]

\* vec![0u8; 256]: the buffer read_response reads into
BufferSize == 256

\* one I/O call on the port: it fails when the fuse is at 1, and is not
\* made at all once an earlier call of the same operation has failed (`?`)
\* or has panicked
Io(port, op) ==
    IF port.failed THEN port
    ELSE IF port.fuse = 1 THEN [port EXCEPT !.failed = TRUE, !.fuse = 0]
    ELSE [port EXCEPT !.wire = Append(@, op),
                      !.fuse = IF @ = 0 THEN 0 ELSE @ - 1]

\* CashCode::send_command: write_all()?, then the sleep of 20 ms
send_command(port, command) == Io(port, Write(command))

\* the bytes read_response will return: all that wait in the input buffer
buffered(port) == port.rx

\* CashCode::read_response: bytes_to_read()?, then the slice
\* buffer[..bytes_available] of the 256-byte buffer, which panics when more
\* than 256 bytes are waiting (nothing is read), then read()?; when a call
\* fails the bytes stay in the input buffer
read_response(port) ==
    IF ~port.failed /\ port.fuse # 1 /\ Len(buffered(port)) > BufferSize
    THEN [port EXCEPT !.failed = TRUE, !.panic = TRUE]
    ELSE LET p == Io(port, Read(buffered(port)))
         IN  IF p.failed THEN p ELSE [p EXCEPT !.rx = <<>>]

\* how a call that did this I/O ends: "none" (Ok), "io" (Err), "panic"
PortErr(port) ==
    IF port.panic THEN "panic" ELSE IF port.failed THEN "io" ELSE "none"

\* CashCode::clear_buffer: bytes_to_read()?, read_exact()? of what waits
clear_buffer(port) ==
    LET p == Io(port, Drain)
    IN  IF p.failed THEN p ELSE [p EXCEPT !.rx = <<>>]

\* CashCode::send_ack
send_ack(port) == Io(port, Write(ACK))

(* ---------------------------------------------------------------- ledger *)
\* one execute() on the connection: it fails when the fuse is at 1
DbCall(conn) ==
    IF conn.failed THEN conn
    ELSE IF conn.fuse = 1 THEN [conn EXCEPT !.failed = TRUE, !.fuse = 0]
    ELSE [conn EXCEPT !.fuse = IF @ = 0 THEN 0 ELSE @ - 1]

\* InsertOrIgnore as it would be with INSERT OR REPLACE
InsertOrIgnore_Replace(rows, nominal) ==
    [n \in DOMAIN rows \cup {nominal} |->
        IF n = nominal THEN 0 ELSE rows[n]]

\* INSERT OR IGNORE INTO accepted_bills (nominal, quantity) VALUES (?1, 0)
InsertOrIgnore(rows, nominal) ==
    IF nominal \in DOMAIN rows THEN rows
    ELSE [n \in DOMAIN rows \cup {nominal} |->
             IF n = nominal THEN 0 ELSE rows[n]]

\* the nominals init_database seeds, in its order
SeedNominals == <<1000, 2000, 5000, 10000, 20000>>

\* the for loop of init_database, from the i-th nominal on
RECURSIVE SeedFrom(_, _)
SeedFrom(conn, i) ==
    IF i > Len(SeedNominals) THEN conn
    ELSE LET c == DbCall(conn)
         IN  IF c.failed THEN c
             ELSE SeedFrom([c EXCEPT !.rows = InsertOrIgnore(@, SeedNominals[i])],
                           i + 1)

\* CashCode::init_database: CREATE TABLE IF NOT EXISTS, then the seeding loop
init_database(conn) ==
    LET c == DbCall(conn)
    IN  IF c.failed THEN c ELSE SeedFrom(c, 1)

\* UpdateQuantity as it would be without the WHERE clause
UpdateQuantity_NoWhere(rows, nominal) ==
    [n \in DOMAIN rows |-> rows[n] + 1]

\* UPDATE accepted_bills SET quantity = quantity + 1 WHERE nominal = ?1
UpdateQuantity(rows, nominal) ==
    IF nominal \in DOMAIN rows THEN [rows EXCEPT ![nominal] = @ + 1] ELSE rows

\* CashCode::record_bill
record_bill(conn, nominal) ==
    LET c == DbCall(conn)
    IN  IF c.failed THEN c ELSE [c EXCEPT !.rows = UpdateQuantity(@, nominal)]

\* i32::MAX: the width of the values get_bill_counts and get_total_amount return
I32Max == 2147483647

\* row.get() into an i32: the conversion fails for a value out of range
FitsI32(v) == v <= I32Max

\* the value a ledger read returns: the connection after the call, Ok/Err
LedgerOk(conn, value) == [db |-> conn, ok |-> TRUE, value |-> value]
LedgerErr(conn) == [db |-> conn, ok |-> FALSE, value |-> <<>>]

\* ORDER BY nominal: the nominals of S in ascending order
RECURSIVE OrderByNominal(_)
OrderByNominal(S) ==
    IF S = {} THEN <<>>
    ELSE LET m == CHOOSE x \in S : \A y \in S : x <= y
         IN  <<m>> \o OrderByNominal(S \ {m})

\* the for loop of get_bill_counts, from the i-th row on: results.push(row?)
RECURSIVE RowsFrom(_, _, _, _)
RowsFrom(conn, order, i, results) ==
    IF i > Len(order) THEN LedgerOk(conn, results)
    ELSE LET c == DbCall(conn)
             nominal == order[i]
             quantity == conn.rows[nominal]
         IN  IF c.failed \/ ~FitsI32(nominal) \/ ~FitsI32(quantity)
             THEN LedgerErr(c)
             ELSE RowsFrom(c, order, i + 1, Append(results, <<nominal, quantity>>))

\* CashCode::get_bill_counts: prepare()?, query_map()?, then the rows
get_bill_counts(conn) ==
    LET c == DbCall(DbCall(conn))
    IN  IF c.failed THEN LedgerErr(c)
        ELSE RowsFrom(c, OrderByNominal(DOMAIN c.rows), 1, <<>>)

\* get_total_amount_CountsOnly, below, sums this
RECURSIVE SumQuantity(_, _)
SumQuantity(rows, S) ==
    IF S = {} THEN 0
    ELSE LET n == CHOOSE x \in S : TRUE
         IN  rows[n] + SumQuantity(rows, S \ {n})

\* SUM(nominal * quantity) over the rows of S, in thousands: every nominal of
\* the table is a multiple of 1000, and the sum itself may exceed 2^31 - 1
RECURSIVE SumThousands(_, _)
SumThousands(rows, S) ==
    IF S = {} THEN 0
    ELSE LET n == CHOOSE x \in S : TRUE
         IN  (n \div 1000) * rows[n] + SumThousands(rows, S \ {n})

\* get_total_amount as it would be with SUM(quantity)
get_total_amount_CountsOnly(conn) ==
    LET c == DbCall(conn)
    IN  IF c.failed \/ DOMAIN c.rows = {} THEN LedgerOk(c, 0)
        ELSE LedgerOk(c, SumQuantity(c.rows, DOMAIN c.rows))

\* CashCode::get_total_amount: query_row(..).unwrap_or(0): the total is 0
\* when the query fails, when the table is empty (SUM is NULL) and when the
\* sum does not fit an i32
get_total_amount(conn) ==
    LET c == DbCall(conn)
        thousands == SumThousands(c.rows, DOMAIN c.rows)
    IN  IF c.failed \/ DOMAIN c.rows = {} THEN LedgerOk(c, 0)
        ELSE IF thousands > I32Max \div 1000 THEN LedgerOk(c, 0)
        ELSE LedgerOk(c, thousands * 1000)

(* ----------------------------------------------------- command exchanges *)
\* the frame reset, enable and disable send
CommandOf(op) ==
    CASE op = "reset" -> COMMAND_RESET
      [] op = "enable" -> COMMAND_ENABLE
      [] op = "disable" -> COMMAND_DISABLE

\* Exchange as it would be if only the header, the length and the command
\* byte of the response were compared with those of the Ack
Exchange_PrefixMatch(port) ==
    LET response == buffered(port)
        p2 == read_response(port)
    IN  IF p2.failed THEN p2
        ELSE IF Len(response) >= 4 /\ SubSeq(response, 1, 4) = SubSeq(ACK, 1, 4)
        THEN clear_buffer(p2)
        ELSE clear_buffer(send_ack(p2))

\* the body shared by reset, enable and disable once send_command has
\* returned: read the response, drain if it is the Ack, else send an Ack
\* and drain
Exchange(port) ==
    LET response == buffered(port)
        p2 == read_response(port)
    IN  IF p2.failed THEN p2
        ELSE IF response = ACK THEN clear_buffer(p2)
        ELSE clear_buffer(send_ack(p2))

(* ------------------------------------------------------------------ poll *)
\* where poll stands after a step of it: it has returned ("return"), or it
\* is at the sleep before the nested enable ("enable"), or at the lock of
\* record_bill ("record"), with the event it will return if the rest
\* succeeds (the steps of the driver thread add "enable_read", "update",
\* "recorded" and "record_failed").  err is "panic" when read_response has panicked: the call
\* returns nothing and the thread unwinds.
Ok(self, event) ==
    [self |-> self, ok |-> TRUE, event |-> event, err |-> "none", at |-> "return"]
Err(self, kind) ==
    [self |-> self, ok |-> FALSE, event |-> None, err |-> kind, at |-> "return"]
Goes(self, event, at) ==
    [self |-> self, ok |-> TRUE, event |-> event, err |-> "none", at |-> at]

\* AckThen as it would be if every arm that uses it marked the stacker
\* removed
AckThen_SetsFlag(self, event) ==
    LET p == clear_buffer(send_ack(self.port))
        s == [self EXCEPT !.port = p, !.stacker_removed = TRUE]
    IN  IF p.failed THEN Err(s, "io") ELSE Ok(s, event)

\* AckThen as it would be if the buffer were drained before the Ack is sent
AckThen_DrainFirst(self, event) ==
    LET p == send_ack(clear_buffer(self.port))
        s == [self EXCEPT !.port = p]
    IN  IF p.failed THEN Err(s, "io") ELSE Ok(s, event)

\* send_ack()?; clear_buffer()?; then `event`
AckThen(self, event) ==
    LET p == clear_buffer(send_ack(self.port))
        s == [self EXCEPT !.port = p]
    IN  IF p.failed THEN Err(s, "io") ELSE Ok(s, event)

\* OnDisabled as it would be without `self.stacker_removed = false`
OnDisabled_KeepsFlag(self) ==
    LET p == clear_buffer(send_ack(self.port))
        s == [self EXCEPT !.port = p]
    IN  IF p.failed THEN Err(s, "io")
        ELSE IF self.stacker_removed
        THEN Goes(s, StackerReplaced, "enable")
        ELSE Ok(s, None)

\* arm STATUS_DISABLED, up to the sleep of 500 ms before self.enable()
OnDisabled(self) ==
    LET p == clear_buffer(send_ack(self.port))
        s == [self EXCEPT !.port = p]
    IN  IF p.failed THEN Err(s, "io")
        ELSE IF self.stacker_removed
        THEN Goes([s EXCEPT !.stacker_removed = FALSE], StackerReplaced, "enable")
        ELSE Ok(s, None)

\* arm STATUS_STACKER_REMOVED
OnStackerRemoved(self) ==
    LET p1 == send_ack(self.port)
        p2 == clear_buffer(p1)
    IN  IF p1.failed THEN Err([self EXCEPT !.port = p1], "io")
        ELSE IF ~self.stacker_removed
        THEN LET s == [self EXCEPT !.port = p2, !.stacker_removed = TRUE]
             IN  IF p2.failed THEN Err(s, "io") ELSE Ok(s, StackerRemoved)
        ELSE LET s == [self EXCEPT !.port = p2]
             IN  IF p2.failed THEN Err(s, "io") ELSE Ok(s, None)

\* the message of arm STATUS_FAILURE
FailureMessage(error_code) ==
    IF error_code = FAILURE_55 THEN "FAILURE 55"
    ELSE "FAILURE 0x" \o Hex02(error_code)

\* RejectReason as it would be without the arm REJECT_INHIBITED
RejectReason_NoInhibited(reject_code) ==
    CASE reject_code = REJECT_INSERTION -> "Insertion error"
      [] reject_code = REJECT_CONVEYING -> "Conveying error"
      [] reject_code = REJECT_IDENTIFICATION -> "Identification error"
      [] reject_code = REJECT_VERIFICATION -> "Verification error"
      [] reject_code = REJECT_CAPACITY -> "Capacity error"
      [] reject_code = REJECT_OPERATION -> "Operation error"
      [] OTHER -> "Unknown error"

\* the reason of arm STATUS_REJECTED
RejectReason(reject_code) ==
    CASE reject_code = REJECT_INSERTION -> "Insertion error"
      [] reject_code = REJECT_CONVEYING -> "Conveying error"
      [] reject_code = REJECT_IDENTIFICATION -> "Identification error"
      [] reject_code = REJECT_VERIFICATION -> "Verification error"
      [] reject_code = REJECT_INHIBITED -> "Denomination inhibited"
      [] reject_code = REJECT_CAPACITY -> "Capacity error"
      [] reject_code = REJECT_OPERATION -> "Operation error"
      [] OTHER -> "Unknown error"

\* arm STATUS_BILL_STACKED, after the length check and up to the lock of
\* record_bill
OnBillStacked(self, nominal_code) ==
    LET p == clear_buffer(send_ack(self.port))
        s == [self EXCEPT !.port = p]
        nominal == from_code(nominal_code)
    IN  IF p.failed THEN Err(s, "io")
        ELSE IF nominal # NoNominal
        THEN Goes(s, Accepted(nominal), "record")
        ELSE Ok(s, Error("Unknown nominal: 0x" \o Hex02(nominal_code)))

\* QuietStatus as it would be if STACKER_FULL had an arm of its own
QuietStatus_WithFull ==
    {STATUS_INITIALIZING, STATUS_IDLING, STATUS_ACCEPTING, STATUS_STACKING,
     STATUS_STACKER_FULL}

\* the statuses whose arm is send_ack, clear_buffer, None
QuietStatus ==
    {STATUS_INITIALIZING, STATUS_IDLING, STATUS_ACCEPTING, STATUS_STACKING}

\* the statuses whose arm needs response[4]
PayloadStatus == {STATUS_FAILURE, STATUS_REJECTED, STATUS_BILL_STACKED}

\* Dispatch as it would be if the payload arms acknowledged before they
\* looked at the length
Dispatch_AckBeforeLength(self, response) ==
    LET status == response[4]
    IN  IF status \in PayloadStatus /\ Len(response) < 5
        THEN AckThen(self, None)
        ELSE CASE status \in QuietStatus -> AckThen(self, None)
               [] status = STATUS_DISABLED -> OnDisabled(self)
               [] status = STATUS_STACKER_REMOVED -> OnStackerRemoved(self)
               [] status = STATUS_JAM_IN_STACKER ->
                      AckThen(self, Jam("Bill jam in stacker"))
               [] status = STATUS_JAM_IN_ACCEPTOR ->
                      AckThen(self, Jam("Bill jam in acceptor"))
               [] status = STATUS_FAILURE ->
                      AckThen(self, Error(FailureMessage(response[5])))
               [] status = STATUS_REJECTED ->
                      AckThen(self, Rejected(RejectReason(response[5])))
               [] status = STATUS_BILL_STACKED ->
                      OnBillStacked(self, response[5])
               [] OTHER -> Ok(self, None)

\* match status { ... } of poll
Dispatch(self, response) ==
    LET status == response[4]
    IN  IF status \in PayloadStatus /\ Len(response) < 5 THEN Ok(self, None)
        ELSE CASE status \in QuietStatus -> AckThen(self, None)
               [] status = STATUS_DISABLED -> OnDisabled(self)
               [] status = STATUS_STACKER_REMOVED -> OnStackerRemoved(self)
               [] status = STATUS_JAM_IN_STACKER ->
                      AckThen(self, Jam("Bill jam in stacker"))
               [] status = STATUS_JAM_IN_ACCEPTOR ->
                      AckThen(self, Jam("Bill jam in acceptor"))
               [] status = STATUS_FAILURE ->
                      AckThen(self, Error(FailureMessage(response[5])))
               [] status = STATUS_REJECTED ->
                      AckThen(self, Rejected(RejectReason(response[5])))
               [] status = STATUS_BILL_STACKED ->
                      OnBillStacked(self, response[5])
               [] OTHER -> Ok(self, None)

\* poll as it would be if a response of fewer than 2 bytes were an error
poll_ShortIsError(self) ==
    LET response == buffered(self.port)
        p2 == read_response(self.port)
        s == [self EXCEPT !.port = p2]
    IN  IF p2.failed THEN Err(s, PortErr(p2))
        ELSE IF Len(response) < 2 THEN Err(s, "io")
        ELSE IF response[1] # 2 \/ response[2] # 3 THEN Ok(s, None)
        ELSE IF Len(response) < 4 THEN Ok(s, None)
        ELSE Dispatch(s, response)

\* CashCode::poll once send_command(COMMAND_POLL) has returned: the read of
\* the response, the checks of its header and length, the arm of its status
poll(self) ==
    LET response == buffered(self.port)
        p2 == read_response(self.port)
        s == [self EXCEPT !.port = p2]
    IN  IF p2.failed THEN Err(s, PortErr(p2))
        ELSE IF Len(response) < 2 THEN Ok(s, None)
        ELSE IF response[1] # 2 \/ response[2] # 3 THEN Ok(s, None)
        ELSE IF Len(response) < 4 THEN Ok(s, None)
        ELSE Dispatch(s, response)

\* self.enable()? of arm STATUS_DISABLED once the Enable frame is written,
\* then Some(BillEvent::StackerReplaced)
poll_enabled(self) ==
    LET pe == Exchange(self.port)
        se == [self EXCEPT !.port = pe]
    IN  IF pe.failed THEN Err(se, PortErr(pe)) ELSE Ok(se, StackerReplaced)

\* self.record_bill(nominal)? of arm STATUS_BILL_STACKED, then
\* Some(BillEvent::Accepted(nominal))
poll_recorded(self, nominal) ==
    LET c == record_bill(self.db, nominal)
        sc == [self EXCEPT !.db = c]
    IN  IF c.failed THEN Err(sc, "db") ELSE Ok(sc, Accepted(nominal))

(* ------------------------------------------------------------ environment *)
\* a device frame without payload: header, length, status, checksum trailer
Frame(status) == <<2, 3, 6, status, 0, 0>>

\* a device frame with a payload byte
PayloadFrame(status, code) == <<2, 3, 7, status, code, 0, 0>>

\* as many bytes as the buffer of read_response holds, and one more: an Ack
\* and zeros
AtCapacity == ACK \o [i \in 1 .. (BufferSize - 6) |-> 0]
Oversize == ACK \o [i \in 1 .. (BufferSize - 5) |-> 0]

\* the bytes that arrive between the write of a Poll frame and the read of
\* its response in the driver's life cycle: none, a status frame, or more
\* bytes than read_response has room for
PollRx ==
    { <<>>, Frame(STATUS_DISABLED), Frame(STATUS_IDLING),
      Frame(STATUS_STACKER_REMOVED),
      PayloadFrame(STATUS_BILL_STACKED, NOMINAL_5000), Oversize }

\* the status bytes of the protocol, and one that is not assigned
Statuses ==
    { STATUS_INITIALIZING, STATUS_DISABLED, STATUS_IDLING, STATUS_ACCEPTING,
      STATUS_STACKING, STATUS_STACKER_FULL, STATUS_STACKER_REMOVED,
      STATUS_JAM_IN_ACCEPTOR, STATUS_JAM_IN_STACKER, STATUS_FAILURE,
      STATUS_REJECTED, STATUS_BILL_STACKED, 153 }

\* the payload codes tried with a status: every code the driver names, and
\* codes it does not
PayloadCodes(status) ==
    CASE status = STATUS_BILL_STACKED ->
             { NOMINAL_1000, NOMINAL_5000, NOMINAL_10000, NOMINAL_2000,
               NOMINAL_20000, 4, 255 }
      [] status = STATUS_REJECTED ->
             { REJECT_INSERTION, REJECT_CONVEYING, REJECT_IDENTIFICATION,
               REJECT_VERIFICATION, REJECT_INHIBITED, REJECT_CAPACITY,
               REJECT_OPERATION, 97 }
      [] status = STATUS_FAILURE -> { FAILURE_55, 171 }
      [] OTHER -> {}

\* the bytes that arrive after a Poll, over every kind of buffer: nothing,
\* a frame of every status with every payload code tried, frames cut short,
\* buffers that hold no whole frame or no frame of the protocol, and buffers
\* at and past the capacity of read_response
FrameRx ==
    {<<>>}
    \cup { Frame(st) : st \in Statuses \ {STATUS_FAILURE, STATUS_REJECTED, STATUS_BILL_STACKED} }
    \cup UNION { { PayloadFrame(st, c) : c \in PayloadCodes(st) } : st \in Statuses }
    \cup { SubSeq(Frame(st), 1, 4) : st \in Statuses }
    \cup { <<2, 3, 5, STATUS_REJECTED, REJECT_INSERTION>> }
    \cup { <<2>>, <<2, 3>>, <<2, 3, 6>>, <<1, 3, 6>>, <<1, 3, 6, 25, 0, 0>>,
           <<2, 4, 6, 25, 0, 0>>, ACK,
           <<0>>, <<3, 2>>, <<2, 3, 129>>, <<2, 3, 25>>, <<255, 255, 255>> }
    \cup { AtCapacity, Oversize }

\* the bytes that arrive after Reset, Enable or Disable
CommandRx == { <<>>, ACK, Frame(STATUS_DISABLED), Oversize }

\* which I/O call of a step of the driver fails (0: none); a step makes at
\* most 3: the read, the Ack, the drain
IoFuse == 0 .. 3

\* which database call of an operation fails (0: none); new makes 7
DbFuse == 0 .. 7

Port(log, rx, fuse) ==
    [wire |-> log, rx |-> rx, fuse |-> fuse, failed |-> FALSE, panic |-> FALSE]
Conn(rows, fuse) == [rows |-> rows, fuse |-> fuse, failed |-> FALSE]

\* struct CashCode, with the inputs of the coming step
CashCode(log, rx, fuse, dbfuse) ==
    [port |-> Port(log, rx, fuse),
     stacker_removed |-> stacker_removed,
     db |-> Conn(db, dbfuse)]

\* a fuse that was set has blown; a panic leaves it unused
Consumed(port) == port.panic \/ port.fuse = 0

RECURSIVE Flatten(_)
Flatten(ss) == IF ss = <<>> THEN <<>> ELSE Head(ss) \o Flatten(Tail(ss))

\* the input buffer of the port at a read: the answers left there by reads
\* that failed, and behind them what has arrived since the last write
Waiting(answer) == Flatten(inbuf) \o answer

\* the answers a step leaves in the input buffer: none once it has read or
\* drained, and none once the port is dropped by a panic
Unread(port, answer) ==
    IF port.rx = <<>> \/ port.panic THEN <<>>
    ELSE IF answer = <<>> THEN inbuf
    ELSE Append(inbuf, answer)

Call(op, ok, event, err) == [op |-> op, ok |-> ok, event |-> event, err |-> err]
NoCall == Call("none", TRUE, None, "none")

\* the call in progress: its name, the point it has reached, the event it
\* is to return (for record_bill called on its own, Accepted(nominal) with
\* the nominal it was called with)
In(op, at, event) == [op |-> op, at |-> at, event |-> event]
Idle == In("none", "idle", None)

\* the events handed to the event channel so far, in order
Emitted == received \o event_q

EmptyRows == [n \in {} |-> 0]

\* no ledger read has returned yet
NoValue == <<>>

cmd_vars == <<cmd_q, ui_enable_taken, n_sent>>
event_vars == <<event_q, received, rx_alive, produced>>
ledger_vars == <<db, mutex, ret, peer>>

(* ------------------------------------------------------------------- Init *)
Init ==
    /\ pc = "new"
    /\ stacker_removed = FALSE
    /\ db = EmptyRows
    /\ wire = <<>>
    /\ last = NoCall
    /\ cmd_q = <<>>
    /\ event_q = <<>>
    /\ received = <<>>
    /\ rx_alive = TRUE
    /\ ui_enable_taken = FALSE
    /\ n_sent = 0
    /\ produced = <<>>
    /\ mutex = "free"
    /\ ret = NoValue
    /\ peer = "idle"
    /\ cur = Idle
    /\ inbuf = <<>>

(* ---------------------------------------------------------- driver thread *)
\* Every action below is the code between two points where the driver
\* thread sleeps or waits for the ledger lock: other threads run in between.

\* CashCode::new as called by init_cashcode: open the port, open the
\* database, init_database; any failure ends init_cashcode with Err
New ==
    /\ pc = "new"
    /\ UNCHANGED <<wire, cur, inbuf, cmd_vars, event_vars, mutex, ret, peer>>
    /\ \E port_opens \in BOOLEAN, dbfuse \in DbFuse :
          LET c == IF port_opens THEN init_database(DbCall(Conn(db, dbfuse)))
                   ELSE Conn(db, 0)
              ok == port_opens /\ ~c.failed
          IN  /\ c.fuse = 0
              /\ pc' = IF ok THEN "reset" ELSE "exit_err"
              /\ db' = c.rows
              /\ stacker_removed' = FALSE
              /\ last' = Call("new", ok, None,
                              IF ~port_opens THEN "io" ELSE IF c.failed THEN "db" ELSE "none")

\* AfterCall as it would be if the loop called enable and disable with `?`
AfterCall_Propagating(site, ok, err) ==
    CASE err = "panic" -> "panic"
      [] site = "reset" -> IF ok THEN "poll_init" ELSE "exit_err"
      [] site = "poll_init" -> IF ok THEN "poll_disabled" ELSE "exit_err"
      [] site = "poll_disabled" -> IF ok THEN "loop" ELSE "exit_err"
      [] OTHER -> IF ok THEN site ELSE "exit_err"

\* where a call of reset, enable or disable, or a startup poll, that has
\* ended leaves the driver thread: `?` after reset and the startup polls,
\* `if let Err(e)` after the commands of the loop; a panic ends the thread
AfterCall(site, ok, err) ==
    CASE err = "panic" -> "panic"
      [] site = "reset" -> IF ok THEN "poll_init" ELSE "exit_err"
      [] site = "poll_init" -> IF ok THEN "poll_disabled" ELSE "exit_err"
      [] site = "poll_disabled" -> IF ok THEN "loop" ELSE "exit_err"
      [] OTHER -> site

\* self.send_command(frame)? as the first statement of `op`: the frame is
\* written and the thread sleeps, or the write fails and `op` returns Err
Begin(op, frame) ==
    \E fuse \in {0, 1} :
    \E p \in {send_command(Port(<<>>, Flatten(inbuf), fuse), frame)} :
          /\ wire' = p.wire
          /\ last' = IF p.failed THEN Call(op, FALSE, None, "io") ELSE NoCall
          /\ cur' = IF p.failed THEN Idle ELSE In(op, "read", None)
          /\ inbuf' = inbuf

\* cashcode.reset()?, up to the sleep of send_command
Reset ==
    /\ pc = "reset"
    /\ cur = Idle
    /\ Begin("reset", COMMAND_RESET)
    /\ pc' = IF cur' = Idle THEN AfterCall(pc, FALSE, "io") ELSE pc
    /\ UNCHANGED <<stacker_removed, cmd_vars, event_vars, ledger_vars>>

\* match cmd
CommandOp(cmd) == IF cmd = "Enable" THEN "enable" ELSE "disable"

\* while let Ok(cmd) = cmd_rx.try_recv(): one command taken, and enable or
\* disable called up to the sleep of send_command; an error is logged, not
\* returned
TakeCommand ==
    /\ pc \in {"loop", "try_recv"}
    /\ cur = Idle
    /\ cmd_q # <<>>
    /\ cmd_q' = Tail(cmd_q)
    /\ ui_enable_taken' = (ui_enable_taken \/ Head(cmd_q) = "Enable")
    /\ Begin(CommandOp(Head(cmd_q)), CommandOf(CommandOp(Head(cmd_q))))
    /\ pc' = "try_recv"
    /\ UNCHANGED <<stacker_removed, n_sent, event_vars, ledger_vars>>

\* reset, enable or disable from read_response on, and what its caller
\* does with the result; the device's answer is drawn from RxSet
CommandAnswer(RxSet) ==
    /\ cur.op \in {"reset", "enable", "disable"}
    /\ cur.at = "read"
    /\ \E answer \in RxSet, fuse \in IoFuse :
       \E p \in {Exchange(Port(wire, Waiting(answer), fuse))} :
          /\ Consumed(p)
          /\ wire' = p.wire
          /\ inbuf' = Unread(p, answer)
          /\ Len(inbuf') <= MaxStale
          /\ last' = Call(cur.op, ~p.failed, None, PortErr(p))
          /\ pc' = AfterCall(pc, ~p.failed, PortErr(p))
    /\ cur' = Idle
    /\ UNCHANGED <<stacker_removed, cmd_vars, event_vars, ledger_vars>>

\* QueueEmpty as it would be with `if let` in place of `while let`: the loop
\* goes on to poll after one command
QueueEmpty_AfterOne ==
    /\ pc \in {"loop", "try_recv"}
    /\ cur = Idle
    /\ cmd_q = <<>> \/ pc = "try_recv"
    /\ pc' = "poll"
    /\ wire' = <<>>
    /\ last' = NoCall
    /\ UNCHANGED <<stacker_removed, cur, inbuf, cmd_vars, event_vars, ledger_vars>>

\* try_recv finds the queue empty: the while loop ends
QueueEmpty ==
    /\ pc \in {"loop", "try_recv"}
    /\ cur = Idle
    /\ cmd_q = <<>>
    /\ pc' = "poll"
    /\ wire' = <<>>
    /\ last' = NoCall
    /\ UNCHANGED <<stacker_removed, cur, inbuf, cmd_vars, event_vars, ledger_vars>>

\* AfterMatch as it would be without the break on a failed tx.send
AfterMatch_NoBreak(r, alive) ==
    IF r.err = "panic" THEN "panic"
    ELSE IF r.ok /\ r.event.type = "Accepted" THEN "total"
    ELSE "loop"

\* where the match on poll's result leaves the loop: Ok(Some(event)) breaks
\* when tx.send fails, and goes on to get_total_amount after an Accepted
\* that was sent; Ok(None) and Err(e) go on to the next cycle; a panic under
\* poll ends the thread before the match
AfterMatch(r, alive) ==
    IF r.err = "panic" THEN "panic"
    ELSE IF r.ok /\ r.event # None /\ ~alive THEN "exit_ok"
    ELSE IF r.ok /\ r.event.type = "Accepted" THEN "total"
    ELSE "loop"

\* Match as it would be if the loop dropped an event equal to the one
\* before it
Match_Dedup(r) ==
    LET sends == /\ r.ok
                 /\ r.event # None
                 /\ (produced = <<>> \/ produced[Len(produced)] # r.event)
    IN  /\ produced' = IF sends THEN Append(produced, r.event) ELSE produced
        /\ event_q' = IF sends /\ rx_alive THEN Append(event_q, r.event)
                      ELSE event_q
        /\ pc' = IF r.err = "panic" THEN "panic"
                 ELSE IF sends /\ ~rx_alive THEN "exit_ok"
                 ELSE IF sends /\ r.event.type = "Accepted" THEN "total"
                 ELSE "loop"

\* match cashcode.poll() of the loop: tx.send(event) for Ok(Some(event)),
\* nothing for Ok(None), the sleep of 1 s for Err(e)
Match(r) ==
    LET sends == r.ok /\ r.event # None
    IN  /\ produced' = IF sends THEN Append(produced, r.event) ELSE produced
        /\ event_q' = IF sends /\ rx_alive THEN Append(event_q, r.event)
                      ELSE event_q
        /\ pc' = AfterMatch(r, rx_alive)

\* StartupReturn as it would be if the event of a startup poll were sent
\* on tx
StartupReturn_Forwarding(r) ==
    LET sends == r.ok /\ r.event # None
    IN  /\ sends => Len(Emitted) < MaxEvents
        /\ event_q' = IF sends /\ rx_alive THEN Append(event_q, r.event)
                      ELSE event_q
        /\ produced' = produced
        /\ pc' = AfterCall(pc, r.ok, r.err)

\* cashcode.poll()? of the startup: the result is dropped
StartupReturn(r) ==
    /\ pc' = AfterCall(pc, r.ok, r.err)
    /\ UNCHANGED <<event_q, produced>>

\* poll has returned r, or has panicked: what its caller does next
PollReturn(r) ==
    /\ last' = Call("poll", r.ok, r.event, r.err)
    /\ cur' = Idle
    /\ IF pc = "poll" THEN Match(r) ELSE StartupReturn(r)

\* poll stays at r.at: at the sleep before the nested enable, at the write
\* of its frame, or at the lock of record_bill
PollStays(r) ==
    /\ last' = last
    /\ cur' = In("poll", r.at, r.event)
    /\ pc' = pc
    /\ UNCHANGED <<event_q, produced>>

\* cashcode.poll() of the startup and of the loop, up to the sleep of
\* send_command
Poll ==
    /\ pc \in {"poll_init", "poll_disabled", "poll"}
    /\ cur = Idle
    /\ Begin("poll", COMMAND_POLL)
    /\ IF cur' = Idle THEN IF pc = "poll" THEN Match(last') ELSE StartupReturn(last')
       ELSE pc' = pc /\ UNCHANGED <<event_q, produced>>
    /\ UNCHANGED <<stacker_removed, cmd_vars, received, rx_alive, ledger_vars>>

\* poll from read_response on: the checks, the arm of the status with its
\* Ack and its drain, and the return unless the arm goes on to enable or to
\* record_bill; the device's answer is drawn from RxSet
PollAnswer(RxSet) ==
    /\ cur.op = "poll"
    /\ cur.at = "read"
    /\ \E answer \in RxSet, fuse \in IoFuse :
       \E r \in {poll(CashCode(wire, Waiting(answer), fuse, 0))} :
          /\ Consumed(r.self.port)
          /\ (pc = "poll" /\ r.event # None) => Len(Emitted) < MaxEvents
          /\ (r.at = "record" /\ r.event.nominal \in DOMAIN db)
                => db[r.event.nominal] < MaxCount
          /\ stacker_removed' = r.self.stacker_removed
          /\ wire' = r.self.port.wire
          /\ inbuf' = Unread(r.self.port, answer)
          /\ Len(inbuf') <= MaxStale
          /\ IF r.at = "return" THEN PollReturn(r) ELSE PollStays(r)
    /\ UNCHANGED <<cmd_vars, received, rx_alive, ledger_vars>>

\* self.enable()? of arm STATUS_DISABLED, after the sleep of 500 ms and up
\* to the sleep of send_command
poll_enable(self) ==
    LET p == send_command(self.port, COMMAND_ENABLE)
        s == [self EXCEPT !.port = p]
    IN  IF p.failed THEN Err(s, "io") ELSE Goes(s, StackerReplaced, "enable_read")

PollEnable ==
    /\ cur.op = "poll"
    /\ cur.at = "enable"
    /\ \E fuse \in {0, 1} :
       \E r \in {poll_enable(CashCode(wire, Flatten(inbuf), fuse, 0))} :
          /\ wire' = r.self.port.wire
          /\ IF r.at = "return" THEN PollReturn(r) ELSE PollStays(r)
    /\ UNCHANGED <<stacker_removed, inbuf, cmd_vars, received, rx_alive, ledger_vars>>

\* the nested enable from read_response on, then the return of poll; the
\* device's answer is drawn from RxSet
EnableAnswer(RxSet) ==
    /\ cur.op = "poll"
    /\ cur.at = "enable_read"
    /\ \E answer \in RxSet, fuse \in IoFuse :
       \E r \in {poll_enabled(CashCode(wire, Waiting(answer), fuse, 0))} :
          /\ Consumed(r.self.port)
          /\ wire' = r.self.port.wire
          /\ inbuf' = Unread(r.self.port, answer)
          /\ Len(inbuf') <= MaxStale
          /\ PollReturn(r)
    /\ UNCHANGED <<stacker_removed, cmd_vars, received, rx_alive, ledger_vars>>

\* let db = self.db.lock().unwrap() of record_bill: poll goes on when the
\* lock is free
PollLock ==
    /\ cur.op = "poll"
    /\ cur.at = "record"
    /\ mutex = "free"
    /\ mutex' = "driver"
    /\ cur' = In("poll", "update", cur.event)
    /\ UNCHANGED <<pc, stacker_removed, db, wire, last, inbuf, cmd_vars,
                   event_vars, ret, peer>>

\* the rest of record_bill, under the lock: the UPDATE, then the guard is
\* dropped
PollRecord ==
    /\ cur.op = "poll"
    /\ cur.at = "update"
    /\ \E dbfuse \in {0, 1} :
       \E r \in {poll_recorded(CashCode(wire, Flatten(inbuf), 0, dbfuse),
                            cur.event.nominal)} :
          /\ r.self.db.fuse = 0
          /\ db' = r.self.db.rows
          /\ cur' = In("poll", IF r.ok THEN "recorded" ELSE "record_failed",
                       r.event)
    /\ mutex' = "free"
    /\ UNCHANGED <<pc, stacker_removed, wire, last, inbuf, cmd_vars, event_vars,
                   ret, peer>>

\* record_bill has returned: `?` and Some(BillEvent::Accepted(nominal)),
\* the return of poll and what its caller does with the result, in the loop
\* up to the lock of get_total_amount
PollDone ==
    /\ cur.op = "poll"
    /\ cur.at \in {"recorded", "record_failed"}
    /\ \E self \in {CashCode(wire, Flatten(inbuf), 0, 0)} :
          PollReturn(IF cur.at = "recorded" THEN Ok(self, cur.event)
                     ELSE Err(self, "db"))
    /\ UNCHANGED <<stacker_removed, wire, inbuf, cmd_vars, received, rx_alive,
                   ledger_vars>>

\* cashcode.get_total_amount() after an Accepted event that was sent: let db
\* = self.db.lock().unwrap()
TotalLock ==
    /\ pc = "total"
    /\ mutex = "free"
    /\ mutex' = "driver"
    /\ pc' = "total_locked"
    /\ UNCHANGED <<stacker_removed, db, wire, last, cur, inbuf, cmd_vars,
                   event_vars, ret, peer>>

\* the rest of get_total_amount, under the lock: the SELECT SUM, then the
\* guard is dropped; the total is logged (ret)
Total ==
    /\ pc = "total_locked"
    /\ \E sumfuse \in {0, 1} :
          ret' = <<get_total_amount(Conn(db, sumfuse)).value>>
    /\ mutex' = "free"
    /\ pc' = "loop"
    /\ UNCHANGED <<stacker_removed, wire, last, cur, inbuf, cmd_vars, event_vars,
                   db, peer>>

\* the steps of Spec that read what the device of the life cycle sends
CommandResponse == CommandAnswer(CommandRx)
PollResponse == PollAnswer(PollRx)
EnableResponse == EnableAnswer(CommandRx)

(* ------------------------------------------------- producers and consumer *)
\* cmd_tx.send(cmd) of a UI callback; it fails once cmd_rx is dropped
Enqueue ==
    /\ n_sent < MaxCmds
    /\ pc \notin {"exit_err", "exit_ok", "panic"}
    /\ \E cmd \in {"Enable", "Disable"} : cmd_q' = Append(cmd_q, cmd)
    /\ n_sent' = n_sent + 1
    /\ UNCHANGED <<pc, stacker_removed, wire, last, cur, inbuf, ui_enable_taken,
                   event_vars, ledger_vars>>

\* ConsumerRecv as it would be if the consumer took the newest event first
ConsumerRecv_Lifo ==
    /\ rx_alive
    /\ event_q # <<>>
    /\ received' = Append(received, event_q[Len(event_q)])
    /\ event_q' = SubSeq(event_q, 1, Len(event_q) - 1)
    /\ UNCHANGED <<pc, stacker_removed, wire, last, cur, inbuf, cmd_vars,
                   rx_alive, produced, ledger_vars>>

\* event_rx.try_recv() of the UI timer
ConsumerRecv ==
    /\ rx_alive
    /\ event_q # <<>>
    /\ received' = Append(received, Head(event_q))
    /\ event_q' = Tail(event_q)
    /\ UNCHANGED <<pc, stacker_removed, wire, last, cur, inbuf, cmd_vars,
                   rx_alive, produced, ledger_vars>>

\* the consumer drops event_rx
ConsumerDrop ==
    /\ rx_alive
    /\ rx_alive' = FALSE
    /\ UNCHANGED <<pc, stacker_removed, wire, last, cur, inbuf, cmd_vars,
                   event_q, received, produced, ledger_vars>>

Next ==
    \/ New
    \/ Reset
    \/ CommandResponse
    \/ Poll
    \/ PollResponse
    \/ PollEnable
    \/ EnableResponse
    \/ PollLock
    \/ PollRecord
    \/ PollDone
    \/ TakeCommand
    \/ QueueEmpty
    \/ TotalLock
    \/ Total
    \/ Enqueue
    \/ ConsumerRecv
    \/ ConsumerDrop

Spec == Init /\ [][Next]_vars

(* -------------------------------------------- one poll, over every buffer *)
\* the input buffer of the port when a poll is called: empty, or holding
\* the answer an earlier read has left there
StaleBuffers ==
    { <<>>, <<Frame(STATUS_IDLING)>>,
      <<PayloadFrame(STATUS_BILL_STACKED, NOMINAL_5000)>> }

\* the driver is in its loop, about to call poll: any sub-state, any
\* seeded counts, the consumer there or gone, the input buffer empty or not
InitFrames ==
    /\ pc = "poll"
    /\ stacker_removed \in BOOLEAN
    /\ db \in [BillNominal -> 0 .. (MaxCount - 1)]
    /\ wire = <<>>
    /\ last = NoCall
    /\ cmd_q = <<>>
    /\ event_q = <<>>
    /\ received = <<>>
    /\ rx_alive \in BOOLEAN
    /\ ui_enable_taken = FALSE
    /\ n_sent = 0
    /\ produced = <<>>
    /\ mutex = "free"
    /\ ret = NoValue
    /\ peer = "idle"
    /\ cur = Idle
    /\ inbuf \in StaleBuffers

FramePoll == PollAnswer(FrameRx)

NextFrames ==
    \/ Poll
    \/ FramePoll
    \/ PollEnable
    \/ EnableResponse
    \/ PollLock
    \/ PollRecord
    \/ PollDone
    \/ TotalLock
    \/ Total

SpecFrames == InitFrames /\ [][NextFrames]_vars

(* ------------------------------------- the loop while the device is jammed *)

\* the store as init_database leaves a new database
SeededRows == [n \in BillNominal |-> 0]

\* the driver is in its loop, about to call poll, in any sub-state
InitJam ==
    /\ pc = "poll"
    /\ stacker_removed \in BOOLEAN
    /\ db = SeededRows
    /\ wire = <<>>
    /\ last = NoCall
    /\ cmd_q = <<>>
    /\ event_q = <<>>
    /\ received = <<>>
    /\ rx_alive \in BOOLEAN
    /\ ui_enable_taken = FALSE
    /\ n_sent = 0
    /\ produced = <<>>
    /\ mutex = "free"
    /\ ret = NoValue
    /\ peer = "idle"
    /\ cur = Idle
    /\ inbuf = <<>>

\* what arrives after a Poll while the device is jammed: nothing, the jam
\* statuses, and two statuses of other arms
JamPoll ==
    PollAnswer({ <<>>, Frame(STATUS_JAM_IN_STACKER), Frame(STATUS_JAM_IN_ACCEPTOR),
                 Frame(STATUS_IDLING), Frame(STATUS_STACKER_REMOVED) })

NextJam == QueueEmpty \/ Poll \/ JamPoll

SpecJam == InitJam /\ [][NextJam]_vars

(* ------------------------------------ the loop with commands already sent *)
\* the contents of the command channel when a cycle starts: the UI may have
\* sent several commands during the sleeps of the driver
PendingQueues ==
    UNION { [1 .. n -> {"Enable", "Disable"}] : n \in 0 .. MaxPending }

\* the driver is at the head of its loop, commands waiting
InitQueue ==
    /\ pc = "loop"
    /\ stacker_removed = FALSE
    /\ db = SeededRows
    /\ wire = <<>>
    /\ last = NoCall
    /\ cmd_q \in PendingQueues
    /\ event_q = <<>>
    /\ received = <<>>
    /\ rx_alive = TRUE
    /\ ui_enable_taken = FALSE
    /\ n_sent = 0
    /\ produced = <<>>
    /\ mutex = "free"
    /\ ret = NoValue
    /\ peer = "idle"
    /\ cur = Idle
    /\ inbuf = <<>>

\* what an idle device answers to a Poll: nothing, or IDLING
QuietPoll == PollAnswer({ <<>>, Frame(STATUS_IDLING) })

NextQueue ==
    \/ TakeCommand
    \/ CommandResponse
    \/ QueueEmpty
    \/ Poll
    \/ QuietPoll
    \/ Enqueue

SpecQueue == InitQueue /\ [][NextQueue]_vars

(* ------------------------- the driver thread, over every kind of buffer *)
\* the driver thread from its start, with commands already waiting in the
\* channel and the consumer gone: the loop ends at its first event
InitCycle ==
    /\ pc = "new"
    /\ stacker_removed = FALSE
    /\ db = EmptyRows
    /\ wire = <<>>
    /\ last = NoCall
    /\ cmd_q \in PendingQueues
    /\ event_q = <<>>
    /\ received = <<>>
    /\ rx_alive = FALSE
    /\ ui_enable_taken = FALSE
    /\ n_sent = 0
    /\ produced = <<>>
    /\ mutex = "free"
    /\ ret = NoValue
    /\ peer = "idle"
    /\ cur = Idle
    /\ inbuf = <<>>

NextCycle ==
    \/ New
    \/ Reset
    \/ CommandResponse
    \/ Poll
    \/ FramePoll
    \/ PollEnable
    \/ EnableResponse
    \/ PollLock
    \/ PollRecord
    \/ PollDone
    \/ TakeCommand
    \/ QueueEmpty

SpecCycle == InitCycle /\ [][NextCycle]_vars

(* ------------------------------- reset, enable and disable, call by call *)
\* what the device may have sent when a command's response is read: the
\* Ack, status frames, sequences that begin as the Ack does, the Ack with a
\* byte more, nothing
AnyAnswer ==
    { ACK, Frame(STATUS_DISABLED), Frame(STATUS_IDLING),
      PayloadFrame(STATUS_BILL_STACKED, NOMINAL_5000),
      SubSeq(ACK, 1, 5), SubSeq(ACK, 1, 4), ACK \o <<0>>,
      <<2, 3, 6, 0, 194, 131>>, <<>>, AtCapacity, Oversize }

\* the driver is constructed, in any sub-state, and a command is to be called
InitCommands ==
    /\ pc = "command"
    /\ stacker_removed \in BOOLEAN
    /\ db = SeededRows
    /\ wire = <<>>
    /\ last = NoCall
    /\ cmd_q = <<>>
    /\ event_q = <<>>
    /\ received = <<>>
    /\ rx_alive = TRUE
    /\ ui_enable_taken = FALSE
    /\ n_sent = 0
    /\ produced = <<>>
    /\ mutex = "free"
    /\ ret = NoValue
    /\ peer = "idle"
    /\ cur = Idle
    /\ inbuf = <<>>

\* one call of reset, enable or disable, up to the sleep of send_command
Command ==
    /\ pc = "command"
    /\ cur = Idle
    /\ \E op \in {"reset", "enable", "disable"} : Begin(op, CommandOf(op))
    /\ pc' = pc
    /\ UNCHANGED <<stacker_removed, cmd_vars, event_vars, ledger_vars>>

\* the rest of the call
CommandAnswered == CommandAnswer(AnyAnswer)

NextCommands == Command \/ CommandAnswered

SpecCommands == InitCommands /\ [][NextCommands]_vars

(* ------------------------------------------- one poll, over every byte *)
\* the driver is in its loop, about to call poll, in any sub-state, the
\* input buffer empty or not
InitBytes ==
    /\ pc = "poll"
    /\ stacker_removed \in BOOLEAN
    /\ db = SeededRows
    /\ wire = <<>>
    /\ last = NoCall
    /\ cmd_q = <<>>
    /\ event_q = <<>>
    /\ received = <<>>
    /\ rx_alive = TRUE
    /\ ui_enable_taken = FALSE
    /\ n_sent = 0
    /\ produced = <<>>
    /\ mutex = "free"
    /\ ret = NoValue
    /\ peer = "idle"
    /\ cur = Idle
    /\ inbuf \in StaleBuffers

\* the bytes that arrive after a Poll: none, a BILL_STACKED frame for every
\* denomination byte, or a frame for every status byte
BytePoll ==
    PollAnswer({<<>>}
               \cup { PayloadFrame(STATUS_BILL_STACKED, c) : c \in 0 .. 255 }
               \cup { Frame(st) : st \in 0 .. 255 })

NextBytes ==
    \/ Poll
    \/ BytePoll
    \/ PollEnable
    \/ EnableResponse
    \/ PollLock
    \/ PollRecord
    \/ PollDone
    \/ TotalLock
    \/ Total

SpecBytes == InitBytes /\ [][NextBytes]_vars

(* ------------------------------------------ the ledger, call by call *)
\* The three methods that use self.db, called one after another by the
\* owner of the CashCode ("driver"), while a second execution context that
\* shares the connection ("peer") calls them too: self.db is an
\* Arc<Mutex<Connection>>, and each method begins by taking its lock.

\* a count from which one more bill of 20000 takes the total past i32::MAX
LargeCounts == {107374}

\* the stores init_database may find: no table yet, the rows an earlier run
\* seeded before it failed, or five rows with the counts of earlier runs
ExistingStores ==
    UNION { [S -> 0 .. MaxCount] : S \in SUBSET BillNominal }
    \cup { [SeededRows EXCEPT ![Dram20000] = n] : n \in LargeCounts }

\* the methods of CashCode that use self.db
LedgerOps == {"record_bill", "get_bill_counts", "get_total_amount"}

\* one more bill of denomination d stays within the counts of a run
CanRecord(d) ==
    \/ db[d] < MaxRecorded
    \/ \E n \in LargeCounts : n <= db[d] /\ db[d] < n + MaxRecorded

\* a database is there, and CashCode::new is about to call init_database
InitLedger ==
    /\ pc = "init_database"
    /\ stacker_removed = FALSE
    /\ db \in ExistingStores
    /\ wire = <<>>
    /\ last = NoCall
    /\ cmd_q = <<>>
    /\ event_q = <<>>
    /\ received = <<>>
    /\ rx_alive = TRUE
    /\ ui_enable_taken = FALSE
    /\ n_sent = 0
    /\ produced = <<>>
    /\ mutex = "free"
    /\ ret = NoValue
    /\ peer = "idle"
    /\ cur = Idle
    /\ inbuf = <<>>

\* Self::init_database(&db)? of CashCode::new
InitDatabase ==
    /\ pc = "init_database"
    /\ \E dbfuse \in DbFuse :
          LET c == init_database(Conn(db, dbfuse))
          IN  /\ c.fuse = 0
              /\ db' = c.rows
              /\ last' = Call("init_database", ~c.failed, None,
                              IF c.failed THEN "db" ELSE "none")
              /\ pc' = IF c.failed THEN "exit_err" ELSE "ledger"
    /\ ret' = NoValue
    /\ UNCHANGED <<cur, inbuf, stacker_removed, wire, cmd_q, event_q, received,
                   rx_alive, ui_enable_taken, n_sent, produced,
                   mutex, peer>>

\* the program is started again on the same database file
Restart ==
    /\ pc \in {"ledger", "exit_err"}
    /\ peer = "idle"
    /\ pc' = "init_database"
    /\ last' = NoCall
    /\ ret' = NoValue
    /\ UNCHANGED <<cur, inbuf, stacker_removed, db, wire, cmd_q, event_q, received,
                   rx_alive, ui_enable_taken, n_sent, produced,
                   mutex, peer>>

\* record_bill(nominal), get_bill_counts() or get_total_amount() is called
\* on the CashCode, up to self.db.lock(); cur keeps the nominal
LedgerCall ==
    /\ pc = "ledger"
    /\ \E op \in LedgerOps :
          /\ pc' = op
          /\ IF op = "record_bill"
             THEN \E d \in BillNominal :
                     /\ CanRecord(d)
                     /\ cur' = In(op, "lock", Accepted(d))
             ELSE cur' = In(op, "lock", None)
    /\ last' = NoCall
    /\ ret' = NoValue
    /\ UNCHANGED <<inbuf, stacker_removed, db, wire, cmd_q, event_q, received,
                   rx_alive, ui_enable_taken, n_sent, produced,
                   mutex, peer>>

\* LedgerLock as it would be if the method used the connection without
\* taking the lock
LedgerLock_NoLock ==
    /\ pc \in LedgerOps
    /\ cur.at = "lock"
    /\ cur' = In(cur.op, "locked", cur.event)
    /\ UNCHANGED <<pc, last, ret, inbuf, stacker_removed, db, wire, cmd_q, event_q, received,
                   rx_alive, ui_enable_taken, n_sent, produced,
                   mutex, peer>>

\* let db = self.db.lock().unwrap(): the first statement of record_bill,
\* get_bill_counts and get_total_amount; it returns when the lock is free
LedgerLock ==
    /\ pc \in LedgerOps
    /\ cur.at = "lock"
    /\ mutex = "free"
    /\ mutex' = "driver"
    /\ cur' = In(cur.op, "locked", cur.event)
    /\ UNCHANGED <<pc, last, ret, inbuf, stacker_removed, db, wire, cmd_q, event_q, received,
                   rx_alive, ui_enable_taken, n_sent, produced,
                   peer>>

\* the rest of record_bill(nominal): the UPDATE, then the guard is dropped
RecordBill ==
    /\ pc = "record_bill"
    /\ cur.at = "locked"
    /\ \E dbfuse \in {0, 1} :
          LET c == record_bill(Conn(db, dbfuse), cur.event.nominal)
          IN  /\ c.fuse = 0
              /\ db' = c.rows
              /\ last' = Call("record_bill", ~c.failed, None,
                              IF c.failed THEN "db" ELSE "none")
    /\ ret' = NoValue
    /\ mutex' = "free"
    /\ cur' = Idle
    /\ pc' = "ledger"
    /\ UNCHANGED <<inbuf, stacker_removed, wire, cmd_q, event_q, received,
                   rx_alive, ui_enable_taken, n_sent, produced,
                   peer>>

\* the rest of get_bill_counts: the SELECT, then the guard is dropped
GetBillCounts ==
    /\ pc = "get_bill_counts"
    /\ cur.at = "locked"
    /\ \E dbfuse \in DbFuse :
          LET r == get_bill_counts(Conn(db, dbfuse))
          IN  /\ r.db.fuse = 0
              /\ ret' = r.value
              /\ last' = Call("get_bill_counts", r.ok, None,
                              IF r.ok THEN "none" ELSE "db")
    /\ mutex' = "free"
    /\ cur' = Idle
    /\ pc' = "ledger"
    /\ UNCHANGED <<inbuf, stacker_removed, db, wire, cmd_q, event_q, received,
                   rx_alive, ui_enable_taken, n_sent, produced,
                   peer>>

\* the rest of get_total_amount: the SELECT SUM, then the guard is dropped
GetTotalAmount ==
    /\ pc = "get_total_amount"
    /\ cur.at = "locked"
    /\ \E dbfuse \in {0, 1} :
          LET r == get_total_amount(Conn(db, dbfuse))
          IN  /\ r.db.fuse = 0
              /\ ret' = r.value
              /\ last' = Call("get_total_amount", r.ok, None,
                              IF r.db.failed THEN "db" ELSE "none")
    /\ mutex' = "free"
    /\ cur' = Idle
    /\ pc' = "ledger"
    /\ UNCHANGED <<inbuf, stacker_removed, db, wire, cmd_q, event_q, received,
                   rx_alive, ui_enable_taken, n_sent, produced,
                   peer>>

\* a second execution context that holds a clone of the Arc of self.db (a
\* reader of the counts, or another writer) calls one of the three ledger
\* methods: let db = self.db.lock().unwrap() returns when the lock is free
PeerLock ==
    /\ pc \in {"ledger"} \cup LedgerOps
    /\ peer = "idle"
    /\ mutex = "free"
    /\ \E op \in LedgerOps :
          /\ op = "record_bill" => \E d \in BillNominal : CanRecord(d)
          /\ peer' = op
    /\ mutex' = "peer"
    /\ UNCHANGED <<pc, last, ret, cur, inbuf, stacker_removed, db, wire,
                   cmd_q, event_q, received,
                   rx_alive, ui_enable_taken, n_sent, produced>>

\* the rest of the method the second context is in, then its guard is
\* dropped
PeerCall ==
    /\ peer # "idle"
    /\ IF peer = "record_bill"
       THEN \E d \in BillNominal, dbfuse \in {0, 1} :
               LET c == record_bill(Conn(db, dbfuse), d)
               IN  /\ CanRecord(d)
                   /\ c.fuse = 0
                   /\ db' = c.rows
       ELSE db' = db
    /\ peer' = "idle"
    /\ mutex' = "free"
    /\ UNCHANGED <<pc, last, ret, cur, inbuf, stacker_removed, wire,
                   cmd_q, event_q, received,
                   rx_alive, ui_enable_taken, n_sent, produced>>

NextLedger ==
    \/ InitDatabase
    \/ Restart
    \/ LedgerCall
    \/ LedgerLock
    \/ RecordBill
    \/ GetBillCounts
    \/ GetTotalAmount
    \/ PeerLock
    \/ PeerCall

SpecLedger == InitLedger /\ [][NextLedger]_vars

(* ------------------------------- the counts of a store, record by record *)
\* CashCode::new has succeeded on a new database, or on one whose total
\* stands just below i32::MAX; the CashCode has one owner
InitCounts ==
    /\ pc = "ledger"
    /\ stacker_removed = FALSE
    /\ db \in {SeededRows} \cup { [SeededRows EXCEPT ![Dram20000] = n] : n \in LargeCounts }
    /\ wire = <<>>
    /\ last = NoCall
    /\ cmd_q = <<>>
    /\ event_q = <<>>
    /\ received = <<>>
    /\ rx_alive = TRUE
    /\ ui_enable_taken = FALSE
    /\ n_sent = 0
    /\ produced = <<>>
    /\ mutex = "free"
    /\ ret = NoValue
    /\ peer = "idle"
    /\ cur = Idle
    /\ inbuf = <<>>

NextCounts ==
    \/ LedgerCall
    \/ LedgerLock
    \/ RecordBill
    \/ GetBillCounts
    \/ GetTotalAmount

SpecCounts == InitCounts /\ [][NextCounts]_vars

\* the driver thread is never suspended for ever: its sleeps are finite
DriverStep ==
    \/ New
    \/ Reset
    \/ CommandResponse
    \/ Poll
    \/ PollResponse
    \/ PollEnable
    \/ EnableResponse
    \/ PollLock
    \/ PollRecord
    \/ PollDone
    \/ TakeCommand
    \/ QueueEmpty
    \/ TotalLock
    \/ Total

LiveSpec == Spec /\ WF_vars(DriverStep)

(* ------------------------------------------------ reading the latest step *)
\* number of occurrences of e in the sequence s
Count(e, s) == Cardinality({ i \in 1 .. Len(s) : s[i] = e })

\* the frame was written to the port in the I/O log w
Wrote(w, frame) == \E i \in 1 .. Len(w) : w[i] = Write(frame)

\* the response read by the operation whose I/O log is w (<<>> when the
\* operation failed before its read)
Response(w) == IF Len(w) >= 2 /\ w[2].io = "read" THEN w[2].data ELSE <<>>

\* the driver thread is in its polling loop
InLoop == pc \in {"loop", "try_recv", "poll", "total", "total_locked"}

\* in this step a call of poll by the driver thread (startup or loop)
\* returns: wire' is the I/O of the whole call, last' its result
PollStep == pc \in {"poll_init", "poll_disabled", "poll"} /\ pc' # pc

\* in this step poll reads its response and runs the arm of the status
PollAnswered == cur.op = "poll" /\ cur.at = "read" /\ cur' # cur

\* poll is waiting to call the nested enable, or is in it
InNestedEnable == cur.op = "poll" /\ cur.at \in {"enable", "enable_read"}

\* the response is a frame (valid header, 4 bytes or more) of this status
IsStatusFrame(response, status) ==
    /\ Len(response) >= 4
    /\ response[1] = 2 /\ response[2] = 3
    /\ response[4] = status

(* ------------------------------------------------------------------ claims *)

\* C1: whenever the driver thread is between two operations (no call in
\* progress), for every denomination the persisted count equals the number
\* of Accepted events of that denomination handed to the event consumer.
C1_CountEqualsEmitted ==
    cur = Idle
    => \A d \in DOMAIN db : db[d] = Count(Accepted(d), Emitted)

\* C2: a main-loop poll that decodes BILL_STACKED with a known denomination
\* and whose ledger increment fails still sends Accepted(d) to the consumer.
C2_AcceptedDespiteLedgerFailure ==
    [][ (pc = "poll" /\ pc' # pc /\ last'.err = "db" /\ rx_alive)
          => event_q' = Append(event_q, Accepted(from_code(Response(wire')[5])))
      ]_vars

\* C3: the driver ends with an error only when opening the port or
\* opening/initializing the store failed, never because of Reset or of a
\* startup poll.
C3_OnlyOpenIsFatal == pc = "exit_err" => last.op = "new"

\* a step of the loop has just ended with a transport error
LoopIoError == pc \in {"loop", "try_recv"} /\ last.err = "io"

\* the driver thread takes a step
DriverMoves == pc' # pc \/ cur' # cur \/ wire' # wire \/ last' # last

\* C4: in the main loop a transport error of any step (the write of a
\* command or of the Poll frame, the read of a response, the Ack write, the
\* drain, the nested enable) never ends the loop: the step that returns it
\* leaves the driver in the loop; the loop ends in no way but a send on a
\* dropped event channel or a panic, which is no transport error; after the
\* error the driver reaches its next call of poll, unless the thread has
\* panicked before; and at that call nothing holds the driver back and its
\* next step is the call, which writes the Poll frame or fails to.
C4_IoErrorKeepsLooping ==
    /\ [][ (InLoop /\ last'.err = "io") => InLoop' ]_vars
    /\ [][ (InLoop /\ ~InLoop')
             => (last'.err = "panic" \/ (pc' = "exit_ok" /\ last'.ok)) ]_vars
    /\ (LoopIoError ~> (pc = "poll" \/ pc = "panic"))
    /\ []((pc = "poll" /\ cur = Idle) => ENABLED Poll)
    /\ [][ (pc = "poll" /\ cur = Idle /\ DriverMoves)
             => /\ last' = (IF cur' = Idle THEN Call("poll", FALSE, None, "io")
                            ELSE NoCall)
                /\ cur' \in {Idle, In("poll", "read", None)}
                /\ cur' # Idle => wire' = <<Write(COMMAND_POLL)>>
                /\ InLoop' ]_vars

\* C4 witness: a read of the loop has failed and left the answer of the
\* device in the input buffer, the loop has gone on, and the Poll frame of a
\* later cycle is written.
C4_Witness ==
    /\ pc = "poll"
    /\ cur = In("poll", "read", None)
    /\ wire = <<Write(COMMAND_POLL)>>
    /\ inbuf # <<>>

\* C5: no Enable frame is written before an Enable command has been taken
\* from the command queue.
C5_NoEnableBeforeUiEnable == Wrote(wire, COMMAND_ENABLE) => ui_enable_taken


\* the latest of the stacker events in the sequence s (None when it has none)
RECURSIVE LastStackerEvent(_)
LastStackerEvent(s) ==
    IF s = <<>> THEN None
    ELSE IF s[Len(s)] \in {StackerRemoved, StackerReplaced} THEN s[Len(s)]
    ELSE LastStackerEvent(SubSeq(s, 1, Len(s) - 1))

\* C6: a run of consecutive polls decoding STACKER_REMOVED, with no DISABLED
\* in between, sends exactly one StackerRemoved: so once a poll of
\* such a run has returned to the loop, the latest stacker event sent is
\* StackerRemoved.
C6_RunEmitsStackerRemoved ==
    ( /\ pc = "loop"
      /\ last.op = "poll"
      /\ last.ok
      /\ Response(wire) = Frame(STATUS_STACKER_REMOVED) )
    => LastStackerEvent(Emitted) = StackerRemoved

\* the Ack write and the drain that answer a status have both been done
AckAndDrainDone(w) == Len(w) >= 4 /\ w[3] = Write(ACK) /\ w[4] = Drain

\* C7, as stated: a poll that decodes DISABLED with sub-state StackerRemoved
\* sets the sub-state to StackerPresent and yields StackerReplaced; with
\* sub-state StackerPresent it yields no event and leaves the sub-state.
C7_DisabledAlwaysReplaces ==
    [][ (PollStep /\ IsStatusFrame(Response(wire'), STATUS_DISABLED))
          => /\ ~stacker_removed'
             /\ last'.event = (IF stacker_removed \/ InNestedEnable
                               THEN StackerReplaced ELSE None)
      ]_vars

\* C7, amended: with sub-state StackerRemoved, once the Ack write and the
\* drain have succeeded the sub-state becomes StackerPresent and the poll goes
\* on to the nested enable; it yields StackerReplaced (sent once to the
\* consumer by the loop) exactly when that enable succeeds too, the sub-state
\* staying StackerPresent; if the Ack write or the drain fails the sub-state
\* stays StackerRemoved and there is no event.  With sub-state StackerPresent
\* there is no event and the sub-state stays.
C7_DisabledReplacesUnlessIoFails ==
    /\ [][ (PollAnswered /\ IsStatusFrame(Response(wire'), STATUS_DISABLED))
             => IF stacker_removed
                THEN IF AckAndDrainDone(wire')
                     THEN /\ ~stacker_removed'
                          /\ cur' = In("poll", "enable", StackerReplaced)
                          /\ pc' = pc
                          /\ event_q' = event_q
                     ELSE /\ stacker_removed'
                          /\ cur' = Idle
                          /\ ~last'.ok /\ last'.event = None
                          /\ event_q' = event_q
                ELSE /\ ~stacker_removed'
                     /\ cur' = Idle
                     /\ last'.event = None
                     /\ event_q' = event_q
         ]_vars
    /\ [][ InNestedEnable
             => /\ IsStatusFrame(Response(wire), STATUS_DISABLED)
                /\ ~stacker_removed /\ ~stacker_removed'
                /\ cur' = Idle
                     => /\ last'.event = (IF last'.ok THEN StackerReplaced ELSE None)
                        /\ event_q' = (IF pc = "poll" /\ rx_alive /\ last'.ok
                                       THEN Append(event_q, StackerReplaced)
                                       ELSE event_q)
                /\ cur' # Idle => event_q' = event_q \/ cur' = cur
         ]_vars

\* C7 witness: a main-loop poll has decoded DISABLED with sub-state
\* StackerRemoved and StackerReplaced is on its way to the consumer.
C7_Witness ==
    /\ pc = "loop"
    /\ last.op = "poll"
    /\ Response(wire) = Frame(STATUS_DISABLED)
    /\ last.event = StackerReplaced
    /\ ~stacker_removed
    /\ Len(event_q) > 0
    /\ event_q[Len(event_q)] = StackerReplaced

\* C8: every transition of the sub-state from StackerRemoved to
\* StackerPresent happens in a poll that goes on to the nested enable, and
\* that poll does not return before it has written, after the Ack of the
\* DISABLED status, the Enable frame.
C8_TransitionWritesEnable ==
    /\ [][ (stacker_removed /\ ~stacker_removed')
             => cur' = In("poll", "enable", StackerReplaced) ]_vars
    /\ [][ (InNestedEnable /\ cur' = Idle)
             => \E i, j \in 1 .. Len(wire') :
                   i < j /\ wire'[i] = Write(ACK) /\ wire'[j] = Write(COMMAND_ENABLE)
         ]_vars

\* the denomination table of the protocol, by device code
TableNominal(code) ==
    CASE code = 0 -> 1000
      [] code = 1 -> 5000
      [] code = 2 -> 10000
      [] code = 12 -> 2000
      [] code = 3 -> 20000
      [] OTHER -> 0

\* the response is a BILL_STACKED frame of at least 5 bytes
IsBillStacked(response) ==
    /\ Len(response) >= 5
    /\ response[1] = 2 /\ response[2] = 3
    /\ response[4] = STATUS_BILL_STACKED

\* poll is in record_bill: waiting for the lock, or holding it
InRecordBill == cur.op = "poll" /\ cur.at \in {"record", "update"}

\* C9: a poll that reads a BILL_STACKED frame with the code of a known
\* denomination d, and has acknowledged it and drained the buffer, returns
\* Accepted(d), which the loop sends to the consumer, from a record_bill
\* that has added exactly 1 to row d alone.
C9_StackedAlwaysRecorded ==
    /\ [][ (cur.op = "poll" /\ cur.at = "update" /\ cur'.at = "recorded")
             => db' = [db EXCEPT ![cur.event.nominal] = @ + 1] ]_vars
    /\ [][ (PollStep /\ IsBillStacked(Response(wire'))
                     /\ TableNominal(Response(wire')[5]) # 0
                     /\ AckAndDrainDone(wire'))
             => LET d == TableNominal(Response(wire')[5])
                IN  /\ cur = In("poll", "recorded", Accepted(d))
                    /\ last'.event = Accepted(d)
                    /\ (pc = "poll" /\ rx_alive)
                          => event_q' = Append(event_q, Accepted(d))
         ]_vars

\* C10, as stated: a poll reading a BILL_STACKED frame with an unknown code
\* sends Ack, yields the unknown-denomination error event and changes no row.
C10_UnknownAlwaysReported ==
    [][ (PollStep /\ IsBillStacked(Response(wire'))
                  /\ TableNominal(Response(wire')[5]) = 0)
          => /\ Wrote(wire', ACK)
             /\ last'.event.type = "Error"
             /\ db' = db
      ]_vars

\* C10, amended: such a poll changes no row in any case; it sends Ack and
\* yields the unknown-denomination error event when the Ack write and the
\* drain succeed, and returns an error without event when one of them fails.
C10_UnknownReportedUnlessIoFails ==
    [][ (PollStep /\ IsBillStacked(Response(wire'))
                  /\ TableNominal(Response(wire')[5]) = 0)
          => /\ db' = db
             /\ last'.ok = AckAndDrainDone(wire')
             /\ IF last'.ok
                THEN /\ last'.event.type = "Error"
                     /\ last'.event.msg \in {"Unknown nominal: 0x04",
                                             "Unknown nominal: 0xFF"}
                     /\ (pc = "poll" /\ rx_alive)
                          => event_q' = Append(event_q, last'.event)
                ELSE last'.event = None /\ event_q' = event_q
      ]_vars

\* C10 witness: a poll has read BILL_STACKED with code 0xFF, has sent Ack and
\* has yielded the error event, every row being as seeded.
C10_Witness ==
    /\ last.op = "poll"
    /\ Response(wire) = PayloadFrame(STATUS_BILL_STACKED, 255)
    /\ Wrote(wire, ACK)
    /\ last.event = Error("Unknown nominal: 0xFF")
    /\ \A n \in DOMAIN db : db[n] = 0

\* the reject table of the protocol, by device code
TableReject(code) ==
    CASE code = 96 -> "Insertion error"
      [] code = 100 -> "Conveying error"
      [] code = 101 -> "Identification error"
      [] code = 102 -> "Verification error"
      [] code = 104 -> "Denomination inhibited"
      [] code = 105 -> "Capacity error"
      [] code = 106 -> "Operation error"
      [] OTHER -> "Unknown error"

\* the response is a REJECTED frame of at least 5 bytes
IsRejected(response) ==
    /\ Len(response) >= 5
    /\ response[1] = 2 /\ response[2] = 3
    /\ response[4] = STATUS_REJECTED

\* C11, as stated: a poll reading a REJECTED frame with payload yields
\* Rejected(reason), the reason being the table entry of the reject code, and
\* leaves the ledger and the sub-state unchanged.
C11_RejectedAlwaysReported ==
    [][ (PollStep /\ IsRejected(Response(wire')))
          => /\ last'.event = Rejected(TableReject(Response(wire')[5]))
             /\ db' = db
             /\ stacker_removed' = stacker_removed
      ]_vars

\* C11, amended: such a poll leaves the ledger and the sub-state unchanged in
\* any case; it yields Rejected(reason), sent once to the consumer by the
\* loop, when its Ack write and its drain succeed, and returns an error
\* without event when one of them fails.
C11_RejectedReportedUnlessIoFails ==
    [][ (PollStep /\ IsRejected(Response(wire')))
          => /\ db' = db
             /\ stacker_removed' = stacker_removed
             /\ last'.ok = AckAndDrainDone(wire')
             /\ IF last'.ok
                THEN /\ last'.event = Rejected(TableReject(Response(wire')[5]))
                     /\ (pc = "poll" /\ rx_alive)
                          => event_q' = Append(event_q, last'.event)
                ELSE last'.event = None /\ event_q' = event_q
      ]_vars

\* C11 witness: a poll has read the frame 02 03 05 1C 60 and has yielded
\* Rejected("Insertion error"), now on its way to the consumer.
C11_Witness ==
    /\ last.op = "poll"
    /\ Response(wire) = <<2, 3, 5, 28, 96>>
    /\ last.event = Rejected("Insertion error")
    /\ event_q = <<Rejected("Insertion error")>>

\* the operation whose I/O log is w has read a response
HasRead(w) == Len(w) >= 2 /\ w[2].io = "read"

\* C12: a poll whose read returns a buffer of 0 to 3 bytes, whatever the
\* bytes, returns Ok without event, does no I/O after the read (no Ack), and
\* changes neither the sub-state nor the ledger nor the event channel.
C12_ShortBufferIsNoFrame ==
    [][ (PollStep /\ HasRead(wire') /\ Len(Response(wire')) < 4)
          => /\ last'.ok
             /\ last'.event = None
             /\ wire' = <<Write(COMMAND_POLL), Read(Response(wire'))>>
             /\ ~Wrote(wire', ACK)
             /\ stacker_removed' = stacker_removed
             /\ db' = db
             /\ event_q' = event_q
      ]_vars

\* C12 witness: a poll has read the 3 bytes 02 03 81, which begin a
\* BILL_STACKED frame, and has returned Ok without event.
C12_Witness ==
    /\ last.op = "poll"
    /\ last.ok
    /\ last.event = None
    /\ wire = <<Write(COMMAND_POLL), Read(<<2, 3, 129>>)>>

\* the response is a frame with one of the two jam statuses
IsJam(response) ==
    /\ Len(response) >= 4
    /\ response[1] = 2 /\ response[2] = 3
    /\ response[4] \in {67, 68}

\* the Jam event of a jam status: 0x44 stacker, 0x43 acceptor
JamEvent(status) ==
    IF status = 68 THEN Jam("Bill jam in stacker") ELSE Jam("Bill jam in acceptor")

\* C13, as stated: every main-loop poll that decodes a jam status yields one
\* Jam event (stacker or acceptor), whatever the sub-state and whatever was
\* yielded before.
C13_JamAlwaysReported ==
    [][ (PollStep /\ IsJam(Response(wire')))
          => /\ last'.event = JamEvent(Response(wire')[4])
             /\ produced' = Append(produced, last'.event)
      ]_vars

\* C13, amended: every main-loop poll that decodes a jam status and whose Ack
\* write and drain succeed yields one Jam event (stacker or acceptor), in
\* either sub-state and also right after an equal Jam event, so k such polls
\* in a row yield k Jam events; when the Ack write or the drain fails the poll
\* returns an error and yields no event.  The sub-state is left as it was.
C13_JamReportedUnlessIoFails ==
    [][ (PollStep /\ IsJam(Response(wire')))
          => /\ stacker_removed' = stacker_removed
             /\ last'.ok = AckAndDrainDone(wire')
             /\ IF last'.ok
                THEN /\ last'.event = JamEvent(Response(wire')[4])
                     /\ produced' = Append(produced, last'.event)
                     /\ rx_alive => event_q' = Append(event_q, last'.event)
                ELSE /\ last'.event = None
                     /\ produced' = produced
                     /\ event_q' = event_q
      ]_vars

\* C13 witness: two polls in a row have decoded JAM_IN_STACKER with the
\* stacker removed, and two equal Jam events are on their way to the consumer.
C13_Witness ==
    /\ last.op = "poll"
    /\ Response(wire) = Frame(STATUS_JAM_IN_STACKER)
    /\ stacker_removed
    /\ produced = <<Jam("Bill jam in stacker"), Jam("Bill jam in stacker")>>
    /\ event_q = produced

\* s is a prefix of t
IsPrefix(s, t) == Len(s) <= Len(t) /\ SubSeq(t, 1, Len(s)) = s

\* C14: the sequence the consumer has read from the event channel is a prefix
\* of the sequence of events the main-loop polls returned; while the consumer
\* holds the channel the events read and those in flight are, in order,
\* exactly the events returned (none lost, doubled or out of order).
C14_ReceivedIsPrefixOfProduced ==
    /\ IsPrefix(received, produced)
    /\ rx_alive => received \o event_q = produced

\* C14 witness: the main loop has returned two different events and the
\* consumer has read both, in that order.
C14_Witness ==
    /\ Len(received) = 2
    /\ received[1] # received[2]
    /\ received = produced
    /\ event_q = <<>>

\* the frame the call of a command writes first
CommandFrame(cmd) == IF cmd = "Enable" THEN COMMAND_ENABLE ELSE COMMAND_DISABLE

\* C15: in every cycle of the main loop the command queue is drained before
\* the Poll frame is written: while a command is pending the driver does not
\* go on to poll; each command leaves the queue from its head, when the call
\* of the command before it has returned, and is issued to the device by
\* that step (which writes the command's frame and nothing else), after which
\* the driver is still in the drain; the call of a command ends in the
\* drain, unless it has panicked and the thread has ended without a Poll; the
\* drain ends only on an empty queue; and in the loop a Poll frame is written
\* only by the step that follows the end of the drain.
C15_QueueDrainedBeforePoll ==
    /\ [][ (pc \in {"loop", "try_recv"} /\ cmd_q # <<>>) => pc' # "poll" ]_vars
    /\ [][ (pc # "poll" /\ pc' = "poll")
             => (cmd_q = <<>> /\ cmd_q' = <<>> /\ cur = Idle) ]_vars
    /\ [][ Len(cmd_q') < Len(cmd_q)
             => /\ pc \in {"loop", "try_recv"}
                /\ cur = Idle
                /\ cmd_q' = Tail(cmd_q)
                /\ IF cur' = Idle
                   THEN last'.op = CommandOp(Head(cmd_q)) /\ wire' = <<>>
                   ELSE /\ cur' = In(CommandOp(Head(cmd_q)), "read", None)
                        /\ wire' = <<Write(CommandFrame(Head(cmd_q)))>>
                /\ pc' = "try_recv"
         ]_vars
    /\ [][ (cur.op \in {"enable", "disable"} /\ cur' # cur)
             => /\ cur' = Idle
                /\ last'.op = cur.op
                /\ ~Wrote(wire', COMMAND_POLL)
                /\ pc' \in {"try_recv", "panic"}
         ]_vars
    /\ [][ (InLoop /\ (wire' # wire \/ last' # last) /\ Wrote(wire', COMMAND_POLL))
             => pc = "poll"
         ]_vars

\* C15 witness: the cycle began with Enable and Disable in the queue and no
\* command was sent since; both were issued, Disable last, the queue is empty
\* and no Poll was written yet.
C15_Witness ==
    /\ pc = "try_recv"
    /\ n_sent = 0
    /\ ui_enable_taken
    /\ last.op = "disable"
    /\ wire # <<>> /\ wire[1] = Write(COMMAND_DISABLE)
    /\ cmd_q = <<>>
    /\ produced = <<>>

\* C16: when the loop sends an event a poll has returned and the consumer
\* has dropped the event channel, the loop ends; after that the driver writes
\* nothing to the port, takes no command and changes no row; and the loop
\* ends in no other way.
C16_SendFailureEndsLoop ==
    /\ [][ (produced' # produced /\ ~rx_alive) => pc' = "exit_ok" ]_vars
    /\ [][ pc = "exit_ok"
             => /\ pc' = "exit_ok"
                /\ wire' = wire /\ last' = last /\ cur' = cur
                /\ cmd_q' = cmd_q /\ db' = db /\ produced' = produced ]_vars
    /\ [][ (pc # "exit_ok" /\ pc' = "exit_ok")
             => /\ pc = "poll"
                /\ ~rx_alive
                /\ last'.ok /\ last'.event # None
                /\ produced' = Append(produced, last'.event) ]_vars

\* C16 witness: the consumer is gone, a main-loop poll has returned an event
\* that could not be sent, and the loop has ended with a command still in the
\* command channel.
C16_Witness ==
    /\ pc = "exit_ok"
    /\ ~rx_alive
    /\ last.op = "poll"
    /\ last.event # None
    /\ produced # <<>> /\ produced[Len(produced)] = last.event
    /\ cmd_q # <<>>

\* the five rows of a seeded store, by ascending denomination
ListedCounts(rows) ==
    << <<1000, rows[1000]>>, <<2000, rows[2000]>>, <<5000, rows[5000]>>,
       <<10000, rows[10000]>>, <<20000, rows[20000]>> >>

\* the sum over the five denominations of value times count, in thousands
TotalInThousands(rows) ==
    rows[1000] + 2 * rows[2000] + 5 * rows[5000] + 10 * rows[10000]
    + 20 * rows[20000]

\* a ledger call returns
Returns(op) == pc = op /\ pc' = "ledger"

\* C17, as stated: each successful record_bill(d) adds one to the count of d
\* and to no other, and nothing else changes a count, so that after n of
\* them on a freshly seeded store the count of d is n; get_bill_counts, when
\* it returns rows, lists the five denominations in ascending order with
\* their counts; get_total_amount returns the sum of value times count.
C17_CountsAndTotalAlwaysRight ==
    /\ [][ (Returns("record_bill") /\ last'.ok)
             => db' = [db EXCEPT ![cur.event.nominal] = @ + 1] ]_vars
    /\ [][ db' # db => (Returns("record_bill") /\ last'.ok) ]_vars
    /\ [][ (Returns("get_bill_counts") /\ last'.ok)
             => ret' = ListedCounts(db) ]_vars
    /\ [][ Returns("get_total_amount")
             => (ret' % 1000 = 0 /\ ret' \div 1000 = TotalInThousands(db)) ]_vars

\* C17, amended: as stated for record_bill and get_bill_counts (a successful
\* record_bill(d) adds one to the count of d and to no other, a failed one
\* changes no row, no other call changes a row, a failed get_bill_counts
\* returns no rows); get_total_amount returns the sum of value times count
\* when its query succeeds and the sum is at most 2^31 - 1, and returns 0
\* otherwise.
C17_CountsRightTotalUnlessQueryFails ==
    /\ [][ Returns("record_bill")
             => /\ cur.op = "record_bill" /\ cur.event.nominal \in BillNominal
                /\ IF last'.ok
                   THEN db' = [db EXCEPT ![cur.event.nominal] = @ + 1]
                   ELSE db' = db ]_vars
    /\ [][ db' # db => (Returns("record_bill") /\ last'.ok) ]_vars
    /\ [][ Returns("get_bill_counts")
             => /\ db' = db
                /\ ret' = (IF last'.ok THEN ListedCounts(db) ELSE <<>>) ]_vars
    /\ [][ Returns("get_total_amount")
             => /\ db' = db
                /\ last'.ok
                /\ IF last'.err = "db" \/ TotalInThousands(db) > 2147483
                   THEN ret' = 0
                   ELSE ret' % 1000 = 0 /\ ret' \div 1000 = TotalInThousands(db)
         ]_vars

\* C17 witness: on the store seeded new, record_bill(5000) has succeeded
\* twice and record_bill(20000) once, and get_bill_counts has returned the
\* five rows in ascending order, with 2 for 5000 and 1 for 20000.
C17_Witness ==
    /\ pc = "ledger"
    /\ last.op = "get_bill_counts"
    /\ last.ok
    /\ db = [SeededRows EXCEPT ![5000] = 2, ![20000] = 1]
    /\ ret = << <<1000, 0>>, <<2000, 0>>, <<5000, 2>>, <<10000, 0>>,
                <<20000, 1>> >>

\* this step is the run of init_database
InitRuns == pc = "init_database" /\ pc' # pc

\* C18, as stated: init_database leaves every existing count unchanged and
\* leaves one row for each of the five denominations, with count 0 for the
\* rows that were absent.
C18_InitAlwaysSeedsAll ==
    [][ InitRuns
          => /\ \A n \in DOMAIN db : n \in DOMAIN db' /\ db'[n] = db[n]
             /\ BillNominal \subseteq DOMAIN db'
             /\ \A n \in BillNominal \ DOMAIN db : db'[n] = 0
      ]_vars

\* C18, amended: init_database leaves every existing count unchanged and adds
\* only rows of the five denominations, with count 0; when it succeeds every
\* one of the five denominations has its row, and a second run changes
\* nothing; when one of its statements fails, CashCode::new fails and the
\* rows not yet seeded stay absent until a later run.
C18_InitSeedsAllUnlessFails ==
    [][ InitRuns
          => /\ \A n \in DOMAIN db : n \in DOMAIN db' /\ db'[n] = db[n]
             /\ \A n \in DOMAIN db' \ DOMAIN db : n \in BillNominal /\ db'[n] = 0
             /\ last'.ok => /\ DOMAIN db' = DOMAIN db \cup BillNominal
                            /\ init_database(Conn(db', 0)).rows = db'
                            /\ pc' = "ledger"
             /\ ~last'.ok => pc' = "exit_err"
      ]_vars

\* C18 witness: init_database has succeeded on a store that held one bill of
\* 5000, and the count is still 1, every other row being at 0.
C18_Witness ==
    /\ pc = "ledger"
    /\ last.op = "init_database"
    /\ last.ok
    /\ db = [SeededRows EXCEPT ![5000] = 1]

\* the driver thread has not reached its loop yet
InStartup == pc \in {"new", "reset", "poll_init", "poll_disabled"}

\* the latest step was one poll that returned Ok: its first I/O is the write
\* of the Poll frame, and it wrote that frame once
OnePollDone ==
    /\ last'.op = "poll" /\ last'.ok
    /\ wire' # <<>> /\ wire'[1] = Write(COMMAND_POLL)
    /\ Count(Write(COMMAND_POLL), wire') = 1

\* C19: nothing is written to the port before reset, whose first write is the
\* Reset frame, the only one written until its response is read; the first startup poll is reached only through a successful
\* reset, the second only through a successful first, and the loop only
\* through a successful second, each poll writing the Poll frame once; and up
\* to the start of the loop no event is handed to the event channel, whatever
\* the two polls returned.
C19_StartupOrder ==
    /\ [](pc = "new" \/ (pc = "reset" /\ cur = Idle) => wire = <<>>)
    /\ [](pc = "reset" /\ cur # Idle
           => (cur = In("reset", "read", None) /\ wire = <<Write(COMMAND_RESET)>>))
    /\ [](InStartup => (event_q = <<>> /\ received = <<>> /\ produced = <<>>))
    /\ [][ (pc = "reset" /\ pc' # pc)
             => /\ wire' = <<>> \/ wire'[1] = Write(COMMAND_RESET)
                /\ ~Wrote(wire', COMMAND_POLL)
                /\ pc' = "poll_init" => (last'.op = "reset" /\ last'.ok /\ wire' # <<>>)
         ]_vars
    /\ [][ (pc' = "poll_init" /\ pc # pc') => pc = "reset" ]_vars
    /\ [][ (pc' = "poll_disabled" /\ pc # pc') => (pc = "poll_init" /\ OnePollDone) ]_vars
    /\ [][ (pc' \in {"loop", "try_recv", "poll"} /\ InStartup)
             => (pc = "poll_disabled" /\ pc' = "loop" /\ OnePollDone) ]_vars
    /\ [][ (pc \in {"poll_init", "poll_disabled"})
             => (event_q' = event_q /\ received' = received /\ produced' = produced)
         ]_vars

\* C19 witness: the loop is about to start, the second startup poll has
\* decoded BILL_STACKED and returned Accepted(5000), and no event was handed
\* to the event channel.
C19_Witness ==
    /\ pc = "loop"
    /\ last.op = "poll"
    /\ last.event = Accepted(5000)
    /\ Response(wire) = PayloadFrame(STATUS_BILL_STACKED, NOMINAL_5000)
    /\ produced = <<>>
    /\ event_q = <<>> /\ received = <<>>

\* the caller of the CashCode is inside a ledger method, past its lock()
DriverInLedger == pc \in LedgerOps /\ cur.at = "locked"

\* the ledger reads
LedgerReads == {"get_bill_counts", "get_total_amount"}

\* C20: two execution contexts that share the connection are never inside
\* a ledger method at once: a context is inside one exactly while it holds
\* the lock, which has one holder at most; rows change only by one whole
\* increment made by the holder of the lock (or by init_database, before the
\* connection is shared); and while a read is in progress, from its lock to
\* its return, no step of any context changes a row.
C20_LedgerCallsHoldTheLock ==
    /\ [](mutex \in {"free", "driver", "peer"})
    /\ [](~(DriverInLedger /\ peer # "idle"))
    /\ [](DriverInLedger <=> (mutex = "driver"))
    /\ []((peer # "idle") <=> (mutex = "peer"))
    /\ [][ db' # db
             => \/ InitRuns /\ mutex = "free" /\ peer = "idle"
                \/ /\ Returns("record_bill") /\ mutex = "driver"
                   /\ db' = [db EXCEPT ![cur.event.nominal] = @ + 1]
                \/ /\ peer = "record_bill" /\ peer' = "idle" /\ mutex = "peer"
                   /\ \E d \in BillNominal : db' = [db EXCEPT ![d] = @ + 1]
         ]_vars
    /\ [][ ((DriverInLedger /\ pc \in LedgerReads) \/ peer \in LedgerReads)
             => db' = db ]_vars
    /\ [][ (\E op \in LedgerOps : Returns(op))
             => (mutex = "driver" /\ mutex' = "free") ]_vars

\* C20 witness: the second context is inside record_bill, holding the lock,
\* on a store in which one bill of 5000 has been recorded, while the caller
\* of the CashCode has called get_bill_counts and waits at its lock().
C20_Witness ==
    /\ pc = "get_bill_counts"
    /\ cur = In("get_bill_counts", "lock", None)
    /\ peer = "record_bill"
    /\ mutex = "peer"
    /\ db = [SeededRows EXCEPT ![5000] = 1]

\* C21: from_code maps the codes 0x00, 0x01, 0x02, 0x0C, 0x03 to 1000,
\* 5000, 10000, 2000, 20000, maps no two of them to the same denomination,
\* and yields None for every other byte; so a poll that reads BILL_STACKED and
\* returns Ok yields Accepted of the table's denomination for the five codes
\* and the unknown-nominal event for every other byte.
C21_DecodingTable ==
    /\ [](\A c \in 0 .. 255 : from_code(c) = TableNominal(c))
    /\ [](\A c1, c2 \in {0, 1, 2, 12, 3} :
             from_code(c1) = from_code(c2) => c1 = c2)
    /\ [](\A c \in (0 .. 255) \ {0, 1, 2, 12, 3} : from_code(c) = NoNominal)
    /\ [][ (PollStep /\ IsBillStacked(Response(wire')) /\ last'.ok)
             => LET code == Response(wire')[5]
                IN  last'.event =
                      IF TableNominal(code) # 0
                      THEN Accepted(TableNominal(code))
                      ELSE Error("Unknown nominal: 0x" \o Hex02(code))
         ]_vars

\* C21 witness: a poll has read BILL_STACKED with code 0x0C and has yielded
\* Accepted(2000), row 2000 alone standing at 1.
C21_Witness ==
    /\ last.op = "poll"
    /\ Response(wire) = PayloadFrame(STATUS_BILL_STACKED, 12)
    /\ last.event = Accepted(2000)
    /\ db = [SeededRows EXCEPT ![2000] = 1]

\* the response is exactly the 4 bytes of a valid header and a status whose
\* arm needs a payload byte (FAILURE 0x47, REJECTED 0x1C, BILL_STACKED 0x81)
IsShortPayloadFrame(response) ==
    /\ Len(response) = 4
    /\ response[1] = 2 /\ response[2] = 3
    /\ response[4] \in {71, 28, 129}

\* C22: a poll that reads exactly 4 bytes with a valid header and the status
\* FAILURE, REJECTED or BILL_STACKED returns Ok without event: it writes no
\* Ack, does not drain, and changes neither the ledger, nor the sub-state,
\* nor the event channel.
C22_ShortPayloadFrameIgnored ==
    [][ (PollStep /\ HasRead(wire') /\ IsShortPayloadFrame(Response(wire')))
          => /\ last'.ok
             /\ last'.event = None
             /\ last'.err = "none"
             /\ wire' = <<Write(COMMAND_POLL), Read(Response(wire'))>>
             /\ ~Wrote(wire', ACK)
             /\ Count(Drain, wire') = 0
             /\ stacker_removed' = stacker_removed
             /\ db' = db
             /\ event_q' = event_q
             /\ produced' = produced
      ]_vars

\* C22 witness: a poll has read the 4 bytes 02 03 06 81 of a BILL_STACKED
\* frame and has returned Ok without event, with nothing written after the
\* read.
C22_Witness ==
    /\ last.op = "poll"
    /\ last.ok
    /\ last.event = None
    /\ wire = <<Write(COMMAND_POLL), Read(<<2, 3, 6, 129>>)>>
    /\ db = SeededRows

\* the status bytes the match of poll has an arm for: INITIALIZING 0x13,
\* DISABLED 0x19, IDLING 0x14, ACCEPTING 0x15, STACKING 0x17,
\* STACKER_REMOVED 0x42, JAM_IN_STACKER 0x44, JAM_IN_ACCEPTOR 0x43,
\* FAILURE 0x47, REJECTED 0x1C, BILL_STACKED 0x81
HandledStatus == {19, 25, 20, 21, 23, 66, 68, 67, 71, 28, 129}

\* the response is a frame (valid header, 4 bytes or more) whose status has
\* no arm
IsUnhandled(response) ==
    /\ Len(response) >= 4
    /\ response[1] = 2 /\ response[2] = 3
    /\ response[4] \notin HandledStatus

\* C23: a poll that reads a frame whose status byte is outside the handled
\* set, STACKER_FULL 0x41 included, returns Ok without event: it writes no
\* Ack, does no I/O after the read, and changes neither the sub-state, nor
\* the ledger, nor the event channel.
C23_UnhandledStatusIgnored ==
    [][ (PollStep /\ HasRead(wire') /\ IsUnhandled(Response(wire')))
          => /\ last'.ok
             /\ last'.event = None
             /\ wire' = <<Write(COMMAND_POLL), Read(Response(wire'))>>
             /\ ~Wrote(wire', ACK)
             /\ stacker_removed' = stacker_removed
             /\ db' = db
             /\ event_q' = event_q
             /\ produced' = produced
      ]_vars

\* C23 witness: a poll has read a STACKER_FULL frame while the stacker was
\* marked removed, and has returned Ok without event, with nothing written
\* after the read and the sub-state as it was.
C23_Witness ==
    /\ last.op = "poll"
    /\ last.ok
    /\ last.event = None
    /\ wire = <<Write(COMMAND_POLL), Read(Frame(65))>>
    /\ stacker_removed
    /\ db = SeededRows

\* the response is a frame whose status has an arm, with the payload byte
\* where the arm needs one
IsHandledFrame(response) ==
    /\ Len(response) >= 4
    /\ response[1] = 2 /\ response[2] = 3
    /\ response[4] \in HandledStatus
    /\ response[4] \in {71, 28, 129} => Len(response) >= 5

\* the number of Ack frames written in the first n entries of the I/O log w
AcksWithin(w, n) ==
    Cardinality({ i \in 1 .. n : i <= Len(w) /\ w[i] = Write(ACK) })

\* C24, as stated: every poll that decodes a handled status (payload present
\* where required) writes exactly one Ack in response to it, right after the
\* read, and drains the input right after that Ack: whatever the poll puts on
\* the wire afterwards begins with the Enable frame.
C24_HandledAlwaysAcked ==
    [][ (PollStep /\ HasRead(wire') /\ IsHandledFrame(Response(wire')))
          => /\ AckAndDrainDone(wire')
             /\ AcksWithin(wire', 4) = 1
             /\ Len(wire') > 4 => wire'[5] = Write(COMMAND_ENABLE)
      ]_vars

\* C24, amended: the Ack is the first I/O after the read and the drain the
\* first after the Ack; when both succeed exactly one Ack answers the status
\* and anything further on the wire begins with the Enable frame; when the
\* Ack write fails no Ack is written, when the drain fails the Ack is written
\* and the input is not drained, and in both cases the poll returns an error
\* without event and without further I/O.
C24_HandledAckedUnlessIoFails ==
    [][ (PollStep /\ HasRead(wire') /\ IsHandledFrame(Response(wire')))
          => IF AckAndDrainDone(wire')
             THEN /\ AcksWithin(wire', 4) = 1
                  /\ Len(wire') > 4 => wire'[5] = Write(COMMAND_ENABLE)
             ELSE /\ ~last'.ok
                  /\ last'.event = None
                  /\ \/ wire' = <<Write(COMMAND_POLL), Read(Response(wire'))>>
                     \/ wire' = <<Write(COMMAND_POLL), Read(Response(wire')),
                                  Write(ACK)>>
      ]_vars

\* C24 witness: a poll has decoded DISABLED with the stacker marked removed;
\* the Ack and the drain came right after the read, then the Enable frame.
C24_Witness ==
    /\ last.op = "poll"
    /\ last.ok
    /\ Response(wire) = Frame(STATUS_DISABLED)
    /\ Len(wire) > 4
    /\ AckAndDrainDone(wire)
    /\ wire[5] = Write(COMMAND_ENABLE)

\* C25: the sub-state is StackerPresent once the driver is constructed; it
\* goes from StackerPresent to StackerRemoved only in a poll that decodes
\* STACKER_REMOVED (0x42), and from StackerRemoved to StackerPresent only in
\* a poll that decodes DISABLED (0x19); a poll of any other status or of no
\* frame, and Reset, Enable and Disable, leave it as it is.
C25_SubStateTransitions ==
    /\ [][ (pc = "new" /\ pc' # pc) => ~stacker_removed' ]_vars
    /\ [][ (~stacker_removed /\ stacker_removed')
             => /\ PollAnswered
                /\ HasRead(wire')
                /\ IsStatusFrame(Response(wire'), 66) ]_vars
    /\ [][ (stacker_removed /\ ~stacker_removed')
             => /\ PollAnswered
                /\ HasRead(wire')
                /\ IsStatusFrame(Response(wire'), 25) ]_vars
    /\ [][ \/ cur.op \in {"reset", "enable", "disable"}
           \/ cur'.op \in {"reset", "enable", "disable"}
           \/ last' # last /\ last'.op \in {"reset", "enable", "disable"}
           \/ InNestedEnable
             => stacker_removed' = stacker_removed ]_vars

\* C25 witness: a startup poll marked the stacker removed, and an Enable
\* taken from the channel has been executed and has left it so.
C25_Witness ==
    /\ pc = "try_recv"
    /\ last.op = "enable"
    /\ last.ok
    /\ stacker_removed

\* the latest call of the driver thread was an Enable or Disable taken from
\* the channel, and it failed
CommandFailed ==
    pc = "try_recv" /\ cur = Idle /\ last.op \in {"enable", "disable"} /\ ~last.ok

\* C26: the failure of an Enable or Disable taken from the command queue is
\* not propagated.  The step in which the call fails leaves the driver in the
\* drain of the queue, with the sub-state, the ledger and the events as they
\* were; the driver's next step is the next queued command if there is one,
\* and otherwise the end of the drain, which leads to the poll of the same
\* cycle; the driver thread never leaves its loop on that account.  (The
\* step after a failed command is the one after a successful command: there
\* is no backoff.)
C26_CommandFailureNotPropagated ==
    /\ [][ (pc \in {"loop", "try_recv"} /\ last' # last /\ ~last'.ok)
             => /\ last'.op \in {"enable", "disable"}
                /\ pc' = "try_recv"
                /\ stacker_removed' = stacker_removed
                /\ db' = db
                /\ event_q' = event_q
         ]_vars
    /\ [][ (CommandFailed /\ cmd_q # <<>> /\ (pc' # pc \/ last' # last \/ cur' # cur))
             => /\ cmd_q' = Tail(cmd_q)
                /\ pc' = "try_recv"
                /\ CommandOp(Head(cmd_q)) \in {cur'.op, last'.op}
         ]_vars
    /\ [][ (CommandFailed /\ cmd_q = <<>> /\ (pc' # pc \/ last' # last \/ cur' # cur))
             => pc' = "poll"
         ]_vars
    /\ [](pc \notin {"exit_err", "exit_ok", "panic"})

\* the frame of a command, by the name of its call
FrameOf(op) ==
    CASE op = "reset" -> COMMAND_RESET
      [] op = "enable" -> COMMAND_ENABLE
      [] op = "disable" -> COMMAND_DISABLE

\* the I/O of a command whose frame is `frame` and whose response is
\* `response`, when it runs to its end: the literal Ack 02 03 06 00 C2 82 is
\* only drained, anything else is acknowledged and drained
WholeExchange(frame, response) ==
    IF response = <<2, 3, 6, 0, 194, 130>>
    THEN <<Write(frame), Read(response), Drain>>
    ELSE <<Write(frame), Read(response), Write(<<2, 3, 6, 0, 194, 130>>), Drain>>

\* in this step a call of reset, enable or disable returns: wire' is the I/O
\* of the whole call, last' its result
CommandStep ==
    /\ last'.op \in {"reset", "enable", "disable"}
    /\ last' # last \/ wire' # wire

\* C27, as stated: Reset, Enable and Disable write their frame once, read
\* the response and compare the whole of it with the literal Ack: if equal
\* they only drain, if different (empty, or a status frame, or an Ack with a
\* byte missing or added) they send one Ack and drain; no event is produced,
\* and the ledger and the sub-state are unchanged.
C27_CommandAlwaysCompletes ==
    [][ CommandStep
          => /\ HasRead(wire')
             /\ wire' = WholeExchange(FrameOf(last'.op), Response(wire'))
             /\ last'.event = None
             /\ stacker_removed' = stacker_removed
             /\ db' = db
             /\ event_q' = event_q
      ]_vars

\* C27, amended: a command first writes its frame and nothing else, and
\* changes nothing until it reads; a command that returns Ok has done
\* exactly that I/O; a
\* command one of whose I/O calls fails returns an error and has done the
\* I/O that comes before the failing call and none after it; a command whose
\* response is longer than the buffer of read_response panics in the read,
\* having written its frame and nothing else, and its thread ends; in every
\* case no event is produced, and the ledger and the sub-state are unchanged.
C27_CommandCompletesUnlessIoFails ==
  /\ [][ (cur = Idle /\ cur' # Idle)
          => /\ cur'.op \in {"reset", "enable", "disable"}
             /\ wire' = <<Write(FrameOf(cur'.op))>>
             /\ stacker_removed' = stacker_removed
             /\ db' = db
             /\ event_q' = event_q
       ]_vars
  /\ [][ CommandStep
          => /\ IF last'.ok
                THEN /\ HasRead(wire')
                     /\ wire' = WholeExchange(FrameOf(last'.op), Response(wire'))
                ELSE IF HasRead(wire')
                THEN /\ IsPrefix(wire', WholeExchange(FrameOf(last'.op),
                                                      Response(wire')))
                     /\ wire' # WholeExchange(FrameOf(last'.op), Response(wire'))
                ELSE wire' \in {<<>>, <<Write(FrameOf(last'.op))>>}
             /\ last'.err = "panic"
                  => (wire' = <<Write(FrameOf(last'.op))>> /\ pc' = "panic")
             /\ last'.ok \/ last'.err \in {"io", "panic"}
             /\ pc' = "panic" <=> last'.err = "panic"
             /\ last'.event = None
             /\ stacker_removed' = stacker_removed
             /\ db' = db
             /\ event_q' = event_q
      ]_vars

\* C27 witness: Enable was called while the stacker was marked removed, the
\* device answered with a BILL_STACKED frame, and the command acknowledged
\* it, drained and returned Ok; no count has changed.
C27_Witness ==
    /\ last.op = "enable"
    /\ last.ok
    /\ wire = <<Write(COMMAND_ENABLE), Read(<<2, 3, 7, 129, 1, 0, 0>>),
                Write(ACK), Drain>>
    /\ stacker_removed
    /\ db = SeededRows

\* C28: a poll that ends with an error (of the port or of the ledger) leaves
\* the driver state as it was before the poll: the step in which it returns
\* the error changes neither the sub-state nor a count of the ledger, and it
\* is not a return from the nested enable, which comes after the poll has
\* cleared the sub-state.
C28_FailedPollChangesNothing ==
    [][ (PollStep /\ ~last'.ok)
          => /\ stacker_removed' = stacker_removed
             /\ db' = db
             /\ ~InNestedEnable
      ]_vars

\* the event is one of the two stacker events
IsStackerEvent(e) == e \in {StackerRemoved, StackerReplaced}

\* the sequence is StackerRemoved, StackerReplaced, StackerRemoved, ...
Alternates(s) ==
    \A i \in 1 .. Len(s) :
        s[i] = IF i % 2 = 1 THEN StackerRemoved ELSE StackerReplaced

\* C29: among the events the consumer has read from the event channel,
\* StackerRemoved and StackerReplaced strictly alternate and the first of
\* them is StackerRemoved.
C29_StackerEventsAlternate ==
    Alternates(SelectSeq(received, IsStackerEvent))

\* C30: no accepted bill is acknowledged without being recorded: whenever a
\* poll writes an Ack for a BILL_STACKED frame that carries a known
\* denomination d, it returns from a record_bill that has added one to the
\* count of d.
C30_AckedBillIsRecorded ==
    /\ [][ (/\ PollStep
            /\ HasRead(wire')
            /\ IsBillStacked(Response(wire'))
            /\ TableNominal(Response(wire')[5]) # 0
            /\ Wrote(wire', ACK))
             => cur = In("poll", "recorded",
                         Accepted(TableNominal(Response(wire')[5])))
         ]_vars
    /\ [][ (cur.op = "poll" /\ cur.at = "update" /\ cur'.at = "recorded")
             => db'[cur.event.nominal] = db[cur.event.nominal] + 1 ]_vars

\* the number of commands the driver has taken from the command channel
Dequeued == n_sent - Len(cmd_q)

\* C31: as long as the event consumer stays connected, every Enable or
\* Disable command a producer has put on the command channel is eventually
\* taken from it by the driver (the step that takes it calls enable or
\* disable, which begins with the write of the command frame), the driver
\* thread being weakly fair and whatever transport errors occur: the k-th
\* command sent is eventually the k-th command taken, unless the consumer
\* has dropped the event channel.
C31_EnqueuedIsDequeued ==
    \A k \in 1 .. MaxCmds :
        (n_sent >= k) ~> (Dequeued >= k \/ ~rx_alive)

====
